---- MODULE Spec2Model ----
(***************************************************************************)
(* A model of the automation package of ai_testing_agent:                  *)
(*   - PlaywrightExecutor (packages/automation/src/playwright-executor.ts):*)
(*     initialize / cleanup, executeTestCase, executeTestSuite;            *)
(*   - BrowserUtils.retryOperation (browser-utils.ts).                     *)
(* The browser driver (Playwright) is the environment: every awaited       *)
(* driver call either resolves or rejects, and a browser may crash.        *)
(***************************************************************************)
EXTENDS Integers, Sequences, FiniteSets, TLC

\* ------------------------------------------------------------------ bounds
\* initialize() calls that get as far as launching a browser
MaxInit == 2
\* steps declared by one test case
MaxSteps == 2
\* test cases of one suite
MaxCases == 2
\* steps declared by one test case of a suite
MaxSuiteSteps == 1

\* ---------------------------------------------------------------- constants
\* `null` of the executor's browser / context / page fields
Null == 0

SupportedBrowsers == {"chromium", "firefox", "webkit"}
\* the browser kinds a BrowserConfig is drawn from (one supported, one not)
ConfigBrowsers == {"chromium", "opera"}

VARIABLES
    \* --- PlaywrightExecutor fields and the driver's resources
    cfgBrowser,     \* this.config.browser
    browser,        \* this.browser: the session it belongs to, or Null
    context,        \* this.context
    page,           \* this.page
    open,           \* the driver resources that are open: [kind, s]
    opened,         \* every resource this executor has opened
    nLaunch,        \* browsers launched so far (session numbers 1..nLaunch)
    \* --- the lifecycle call in progress (initialize or cleanup)
    lpc,            \* its position
    initOutcome,    \* how the last initialize() ended
    closeLog,       \* close operations invoked by the latest cleanup()
    closeRaised,    \* whether a close of the latest cleanup() raised
    atStart,        \* <<page, context, browser>> when the latest cleanup() began
    cleanupOutcome, \* how the latest cleanup() ended: "returned" or "raised"
    ck,             \* cleanup(): which of its three handles it is at
    prevClean,      \* the last lifecycle call was a cleanup() in which no close raised
    afterClean,     \* the latest cleanup() began right after such a cleanup()
    lastCall,       \* the lifecycle call that ended last: "none", "initialize", "cleanup"
    \* --- the execute call in progress (executeTestCase or executeTestSuite)
    mode,           \* "none", "case" or "suite"
    rpc,            \* its position
    opts,           \* ExecutionOptions
    tc,             \* the TestCase being executed: [id, steps]
    si,             \* index of the next step of tc
    stepResults,    \* executeTestCase's local stepResults
    status,         \* executeTestCase's local status
    error,          \* executeTestCase's local error
    artifacts,      \* what captureArtifacts returned
    captured,       \* whether captureArtifacts attempted a capture
    raisedBy,       \* history: per StepResult, what the step's action raised
    invoked,        \* history: step numbers whose performAction was called
    interactions,   \* history: per StepResult, driver interactions invoked for it
    escaped,        \* history: an error escaped the step loop
    callOutcome,    \* "running", "returned" or "raised"
    callError,      \* the error the call raised
    tcResult,       \* what a direct executeTestCase call returned
    handlerResults, \* the executor's own resultHandler.results
    suiteIds,       \* ids of the suite's test cases, in order
    ci,             \* index of the suite's current case
    results,        \* executeTestSuite's local results
    attempted,      \* history: ids executeTestCase was invoked for by the suite
    caseRaised,     \* history: per result, whether executeTestCase raised
    delays,         \* history: delays performed between cases
    \* --- a BrowserUtils.retryOperation call
    rcfg,           \* retryConfig: [maxRetries, delay, backoff]
    rpos,           \* its position
    attempt,        \* the loop variable
    lastError,      \* the local lastError
    invocations,    \* history: how often operation() was invoked
    calls,          \* history: how each invocation settled, in order
    waits,          \* history: the delays waited, in order
    retValue,       \* the value the call returned
    retError,       \* the error the call raised
    \* --- a BrowserUtils.smartClick, smartFill or smartSelect call
    sop,            \* which one: "none", "click", "fill", "select"
    sphase,         \* its retryOperation call: "wait" (line 35) or "op"
    strace,         \* history: the driver calls it made, in order
    fillText,       \* smartFill: the text to write
    elValue,        \* smartFill: the value of the element
    selWanted,      \* smartSelect: the value or label to select
    selOptions,     \* smartSelect: the options of the element
    selected,       \* smartSelect: index of the option the call selected, or 0
    \* --- a TestResultHandler with listeners (the AutomationEngine's)
    now,            \* the clock: what `new Date()` gives
    hEvents,        \* this.events: the names of the registered listeners
    hResults,       \* this.results
    hStart,         \* this.startTime
    hSince,         \* history: inputs of processResult since the last clearResults
    hCalls,         \* history: the number of processResult calls
    hIn,            \* history: the input of the last processResult call
    hOut,           \* history: how the last processResult call ended
    hLog,           \* history: the listener invocations of that call, in order
    hReport,        \* what the latest summary, analysis or export produced
    \* --- a call of a function of its arguments
    fnName,         \* which one, or "none"
    fnIn,           \* its arguments
    fnOut,          \* what it returned or raised
    \* --- the data of an executeTestCase call
    dTc,            \* the test case: testData and steps with data and expected
    dData,          \* the testData object of the test case, as it is now
    dSi,            \* index of the next step
    dLog,           \* history: what each step passed to the driver
    \* --- executeTestCase calls that overlap on one initialised executor
    xCalls,         \* per call: its position, its steps, its locals
    xLog,           \* history: the driver calls on this.page, in order
    \* --- an AutomationEngine.executeTestSuite call
    eOut            \* how it ended, and the list it returned

lifeVars == <<cfgBrowser, browser, context, page, open, opened, nLaunch, lpc,
              initOutcome, closeLog, closeRaised, atStart, cleanupOutcome, ck, prevClean,
              afterClean, lastCall>>
caseVars == <<tc, si, stepResults, status, error, artifacts, captured, raisedBy,
              invoked, interactions, escaped>>
callVars == <<mode, rpc, opts, callOutcome, callError, tcResult, handlerResults>>
suiteVars == <<suiteIds, ci, results, attempted, caseRaised, delays>>
execVars == <<caseVars, callVars, suiteVars>>
utilVars == <<rcfg, rpos, attempt, lastError, invocations, calls, waits, retValue, retError>>
smartVars == <<sop, sphase, strace, fillText, elValue, selWanted, selOptions, selected>>
handlerVars == <<now, hEvents, hResults, hStart, hSince, hCalls, hIn, hOut, hLog, hReport>>
pureVars == <<fnName, fnIn, fnOut>>
dataVars == <<dTc, dData, dSi, dLog>>
concVars == <<xCalls, xLog>>
engineVars == <<eOut>>
moreVars == <<pureVars, dataVars, concVars, engineVars>>
restVars == <<smartVars, handlerVars, moreVars>>

\* ------------------------------------------------------------ driver model
Res(kind, s) == [kind |-> kind, s |-> s]

\* What closing a resource closes: a browser takes its contexts and pages
\* with it, a context its pages.
Closes(kind, s) ==
    CASE kind = "page"    -> {Res("page", s)}
      [] kind = "context" -> {Res("page", s), Res("context", s)}
      [] kind = "browser" -> {Res("page", s), Res("context", s), Res("browser", s)}

IsOpen(kind, s) == Res(kind, s) \in open

\* ------------------------------------------------------------- error values
\* A thrown value: an Error with a message, or something that is no Error.
Err(m) == [threw |-> TRUE, isError |-> TRUE, message |-> m]
NonError == [threw |-> TRUE, isError |-> FALSE, message |-> "<no message>"]
Ok == [threw |-> FALSE, isError |-> FALSE, message |-> "<no message>"]
\* `undefined` of an optional error field
NoMsg == "<undefined>"

TargetClosed == Err("Target page, context or browser has been closed")
\* What a driver interaction can reject with.
DriverErrors(pageOpen) ==
    IF pageOpen
    THEN {Err("Timeout 30000ms exceeded."), Err(""), NonError}
    ELSE {TargetClosed}

\* --------------------------------------------------------------- initialize
\* initialize(), lines 19-44: the switch on the browser type, up to launch().
InitializeStart ==
    /\ lpc = "idle"
    /\ prevClean' = FALSE
    /\ IF cfgBrowser \in SupportedBrowsers
       THEN /\ nLaunch < MaxInit
            /\ lpc' = "init_launch"
            /\ initOutcome' = "running"
            /\ UNCHANGED lastCall
       ELSE /\ lpc' = "idle"
            /\ initOutcome' = "raised"
            /\ lastCall' = "initialize"
    /\ UNCHANGED <<cfgBrowser, browser, context, page, open, opened, nLaunch,
                   closeLog, closeRaised, atStart, cleanupOutcome, ck, afterClean>>
    /\ UNCHANGED <<execVars, utilVars, restVars>>

\* launch() settles (lines 25-41); on success newContext() is called (line 57).
InitializeLaunched ==
    /\ lpc = "init_launch"
    /\ \/ /\ nLaunch' = nLaunch + 1
          /\ browser' = nLaunch + 1
          /\ open' = open \cup {Res("browser", nLaunch + 1)}
          /\ opened' = opened \cup {Res("browser", nLaunch + 1)}
          /\ lpc' = "init_context"
          /\ UNCHANGED <<initOutcome, lastCall>>
       \/ /\ lpc' = "idle"
          /\ initOutcome' = "raised"
          /\ lastCall' = "initialize"
          /\ UNCHANGED <<nLaunch, browser, open, opened>>
    /\ UNCHANGED <<cfgBrowser, context, page, closeLog, closeRaised, atStart, cleanupOutcome, ck,
                   prevClean, afterClean>>
    /\ UNCHANGED <<execVars, utilVars, restVars>>

\* newContext() settles (line 57); on success newPage() is called (line 60).
InitializeContext ==
    /\ lpc = "init_context"
    /\ \/ /\ IsOpen("browser", browser)
          /\ context' = browser
          /\ open' = open \cup {Res("context", browser)}
          /\ opened' = opened \cup {Res("context", browser)}
          /\ lpc' = "init_page"
          /\ UNCHANGED <<initOutcome, lastCall>>
       \/ /\ lpc' = "idle"
          /\ initOutcome' = "raised"
          /\ lastCall' = "initialize"
          /\ UNCHANGED <<context, open, opened>>
    /\ UNCHANGED <<cfgBrowser, browser, page, nLaunch, closeLog, closeRaised, atStart, cleanupOutcome, ck,
                   prevClean, afterClean>>
    /\ UNCHANGED <<execVars, utilVars, restVars>>

\* newPage() settles (line 60); setDefaultTimeout (line 63) and return.
InitializePage ==
    /\ lpc = "init_page"
    /\ \/ /\ IsOpen("context", context)
          /\ page' = context
          /\ open' = open \cup {Res("page", context)}
          /\ opened' = opened \cup {Res("page", context)}
          /\ initOutcome' = "returned"
       \/ /\ initOutcome' = "raised"
          /\ UNCHANGED <<page, open, opened>>
    /\ lpc' = "idle"
    /\ lastCall' = "initialize"
    /\ UNCHANGED <<cfgBrowser, browser, context, nLaunch, closeLog, closeRaised, atStart, cleanupOutcome, ck,
                   prevClean, afterClean>>
    /\ UNCHANGED <<execVars, utilVars, restVars>>

\* The browser process of a session dies: everything of the session is gone.
Crash ==
    /\ \E s \in 1..nLaunch :
          /\ IsOpen("browser", s)
          /\ open' = open \ Closes("browser", s)
    /\ UNCHANGED <<cfgBrowser, browser, context, page, opened, nLaunch, lpc,
                   initOutcome, closeLog, closeRaised, atStart, cleanupOutcome, ck, prevClean,
                   afterClean, lastCall>>
    /\ UNCHANGED <<execVars, utilVars, restVars>>

\* ------------------------------------------------------------------ cleanup
\* The order in which cleanup() goes through the handles (lines 348-359).
CleanupOrderReversed == <<"browser", "context", "page">>
CleanupOrder == <<"page", "context", "browser">>

Handle(kind) ==
    CASE kind = "page"    -> page
      [] kind = "context" -> context
      [] kind = "browser" -> browser

\* cleanup() is called (line 346).
CleanupStart ==
    /\ lpc = "idle"
    /\ lpc' = "cl_check"
    /\ ck' = 1
    /\ closeLog' = <<>>
    /\ closeRaised' = FALSE
    /\ atStart' = <<page, context, browser>>
    /\ cleanupOutcome' = "running"
    /\ afterClean' = prevClean
    /\ UNCHANGED <<cfgBrowser, browser, context, page, open, opened, nLaunch,
                   initOutcome, prevClean, lastCall>>
    /\ UNCHANGED <<execVars, utilVars, restVars>>

\* `if (this.X) { await this.X.close(); ...`: the test of the handle and the
\* call of close(), which resolves or rejects (lines 348-349, 352-353, 356-357).
CleanupClose ==
    /\ lpc = "cl_check"
    /\ LET kind == CleanupOrder[ck]
           h == Handle(kind)
           last == ck = Len(CleanupOrder)
       IN  IF h = Null
           THEN /\ lpc' = IF last THEN "idle" ELSE "cl_check"
                /\ ck' = IF last THEN ck ELSE ck + 1
                /\ lastCall' = IF last THEN "cleanup" ELSE lastCall
                /\ prevClean' = IF last THEN ~closeRaised ELSE prevClean
                /\ UNCHANGED <<open, closeLog, closeRaised>>
           ELSE /\ closeLog' = Append(closeLog, Res(kind, h))
                /\ \/ /\ open' = open \ Closes(kind, h)
                      /\ lpc' = "cl_release"
                      /\ UNCHANGED <<ck, closeRaised, lastCall, prevClean>>
                   \/ \* close() rejects: the one try block of lines 347-362
                      \* ends cleanup() at its catch
                      /\ open' \in {open, open \ Closes(kind, h)}
                      /\ closeRaised' = TRUE
                      /\ lpc' = "idle"
                      /\ lastCall' = "cleanup"
                      /\ prevClean' = FALSE
                      /\ UNCHANGED ck
    /\ cleanupOutcome' = IF lpc' = "idle" THEN "returned" ELSE cleanupOutcome
    /\ UNCHANGED <<cfgBrowser, browser, context, page, opened, nLaunch, initOutcome,
                   atStart, afterClean>>
    /\ UNCHANGED <<execVars, utilVars, restVars>>

\* `this.X = null` once close() has resolved (lines 350, 354, 358).
CleanupRelease ==
    /\ lpc = "cl_release"
    /\ LET kind == CleanupOrder[ck]
           last == ck = Len(CleanupOrder)
       IN  /\ page' = IF kind = "page" THEN Null ELSE page
           /\ context' = IF kind = "context" THEN Null ELSE context
           /\ browser' = IF kind = "browser" THEN Null ELSE browser
           /\ lpc' = IF last THEN "idle" ELSE "cl_check"
           /\ ck' = IF last THEN ck ELSE ck + 1
           /\ lastCall' = IF last THEN "cleanup" ELSE lastCall
           /\ prevClean' = IF last THEN ~closeRaised ELSE prevClean
    /\ cleanupOutcome' = IF lpc' = "idle" THEN "returned" ELSE cleanupOutcome
    /\ UNCHANGED <<cfgBrowser, open, opened, nLaunch, initOutcome, closeLog,
                   closeRaised, atStart, afterClean>>
    /\ UNCHANGED <<execVars, utilVars, restVars>>

\* ---------------------------------------------------------------- test data
\* Actions that need step.element (lines 161-182, 189-192, 210-213).
ElementActions == {"click", "fill", "type", "select", "waitForElement", "hover"}
\* Actions that go to the page whether or not there is an element.
PageActions == {"navigate", "wait", "waitForNavigation", "scroll", "keyPress"}

\* The shapes the steps of the checked test cases are drawn from.
StepPool ==
    { [action |-> "navigate", element |-> FALSE, expected |-> "https://x"],
      [action |-> "click",    element |-> TRUE,  expected |-> ""],
      [action |-> "click",    element |-> FALSE, expected |-> ""],
      [action |-> "bogus",    element |-> FALSE, expected |-> ""] }

\* step.step of the i-th declared step: i, or ten times i.
Numberings == {1, 10}

StepShapes == UNION {[1..n -> StepPool] : n \in 0..MaxSteps}

Declared(shape, b) ==
    [i \in DOMAIN shape |->
        [step |-> b * i, action |-> shape[i].action,
         element |-> shape[i].element, expected |-> shape[i].expected]]

TestCases(id) ==
    {[id |-> id, steps |-> Declared(shape, b)] : shape \in StepShapes, b \in Numberings}

\* ExecutionOptions (types.ts, lines 219-237). Every field is optional; an
\* absent stopOnFailure, delayBetweenTests or maxRetries is read as false or 0
\* wherever it is read, an absent captureOnSuccess is not (CaptureRequested),
\* so it is the one field that is present or absent here.
Options ==
    [stopOnFailure : BOOLEAN, captureOnSuccess : BOOLEAN,
     delayBetweenTests : {0, 100}, maxRetries : {0, 1}]
      \cup [stopOnFailure : BOOLEAN, delayBetweenTests : {0, 100}, maxRetries : {0, 1}]

\* The test cases of the checked suites: at most MaxSuiteSteps steps each.
SuitePool ==
    { [action |-> "navigate", element |-> FALSE, expected |-> "https://x"],
      [action |-> "click",    element |-> FALSE, expected |-> ""] }

SuiteCases(id) ==
    {[id |-> id, steps |-> Declared(shape, 1)] :
        shape \in UNION {[1..n -> SuitePool] : n \in 0..MaxSuiteSteps}}

RECURSIVE Sum(_)
Sum(seq) == IF seq = <<>> THEN 0 ELSE Head(seq) + Sum(Tail(seq))

\* Date.now() - startTime (lines 74, 96). Time is counted in awaited driver
\* interactions: each takes one unit, everything else takes none.
Elapsed(ops) == Sum(ops)

\* ------------------------------------------------------------ performAction
SelectorRequired(action) == Err("Element selector required for " \o action \o " action")
UnsupportedAction(action) == Err("Unsupported action: " \o action)
PageNotAvailable == Err("Page not available")
NotInitialized == Err("Browser not initialized. Call initialize() first.")

\* One driver interaction on the page: it resolves only on an open page.
Interaction(pageOpen) ==
    {[ops |-> 1, err |-> e] : e \in (IF pageOpen THEN {Ok} ELSE {}) \cup DriverErrors(pageOpen)}

Mismatch == Err("Expected a value but got another")

\* performAssertion (lines 228-268).
PerformAssertion(step, pageOpen) ==
    IF step.element
    THEN IF step.expected \in {"visible", "hidden"}
         THEN Interaction(pageOpen)
         ELSE \* waitFor(), then textContent(), then the comparison
              {[ops |-> 1, err |-> e] : e \in DriverErrors(pageOpen)}
                 \cup (IF pageOpen
                       THEN {[ops |-> 2, err |-> e] :
                                e \in {Ok, Mismatch} \cup DriverErrors(pageOpen)}
                       ELSE {})
    ELSE IF step.expected = "url:"
         THEN {[ops |-> 0, err |-> Ok], [ops |-> 0, err |-> Mismatch]}
         ELSE IF step.expected = "title:"
         THEN \* page.title(), then the comparison
              {[ops |-> 1, err |-> e] :
                  e \in (IF pageOpen THEN {Ok, Mismatch} ELSE {}) \cup DriverErrors(pageOpen)}
         ELSE {[ops |-> 0, err |-> Ok]}

\* performAction (lines 148-223): the outcomes it can have, each with the
\* number of driver interactions it invoked and what it threw (Ok: nothing).
PerformActionUnchecked(step, pg, pageOpen) ==
    IF pg = Null
    THEN {[ops |-> 0, err |-> PageNotAvailable]}
    ELSE CASE step.action = "assert" -> PerformAssertion(step, pageOpen)
           [] OTHER -> Interaction(pageOpen)
PerformAction(step, pg, pageOpen) ==
    IF pg = Null
    THEN {[ops |-> 0, err |-> PageNotAvailable]}
    ELSE CASE step.action \in ElementActions ->
                 IF ~step.element
                 THEN {[ops |-> 0, err |-> SelectorRequired(step.action)]}
                 ELSE Interaction(pageOpen)
           [] step.action \in PageActions -> Interaction(pageOpen)
           [] step.action = "assert" -> PerformAssertion(step, pageOpen)
           [] OTHER -> {[ops |-> 0, err |-> UnsupportedAction(step.action)]}

\* `if (error) x.error = error`: an optional error field is set only to a
\* truthy string.
ErrField(m) == IF m = NoMsg \/ m = "" THEN NoMsg ELSE m

\* executeStep (lines 120-143): the StepResult for what performAction threw.
ExecuteStepGeneric(step, thrown) ==
    [step   |-> step.step,
     status |-> IF thrown.threw THEN "FAILED" ELSE "PASSED",
     error  |-> IF thrown.threw THEN "Step execution failed" ELSE NoMsg]
ExecuteStep(step, thrown) ==
    [step   |-> step.step,
     status |-> IF thrown.threw THEN "FAILED" ELSE "PASSED",
     error  |-> IF thrown.threw
                THEN ErrField(IF thrown.isError THEN thrown.message
                              ELSE "Step execution failed")
                ELSE NoMsg]

\* The test of line 85: whether a StepResult ends the step loop.
StopsCaseNever(sr) == FALSE
StopsCase(sr) == sr.status = "FAILED"

\* The status of the case after a StepResult (lines 77, 85-86).
CaseStatusKept(current, sr) == current
CaseStatus(current, sr) == IF sr.status = "FAILED" THEN "FAILED" ELSE current

\* ---------------------------------------------------------- executeTestCase
NoArtifacts == "<none>"

\* executeTestCase, lines 74-77: the locals of a call that passed the check
\* of line 70.
EnterCase(t) ==
    /\ tc' = t
    /\ si' = 1
    /\ stepResults' = <<>>
    /\ status' = "PASSED"
    /\ error' = NoMsg
    /\ artifacts' = NoArtifacts
    /\ captured' = FALSE
    /\ raisedBy' = <<>>
    /\ invoked' = <<>>
    /\ interactions' = <<>>
    /\ escaped' = FALSE
    /\ rpc' = IF Len(t.steps) = 0 THEN "finish" ELSE "step"

\* A direct call of executeTestCase (lines 69-77). The options that only
\* executeTestSuite reads, or nobody, are left at false and 0.
ExecuteTestCase ==
    /\ mode = "none"
    /\ \E t \in TestCases("tc1"), o \in Options :
          /\ ~o.stopOnFailure /\ o.delayBetweenTests = 0 /\ o.maxRetries = 0
          /\ mode' = "case"
          /\ opts' = o
          /\ IF page = Null
             THEN /\ callOutcome' = "raised"
                  /\ callError' = NotInitialized
                  /\ rpc' = "done"
                  /\ UNCHANGED caseVars
             ELSE /\ EnterCase(t)
                  /\ callOutcome' = "running"
                  /\ UNCHANGED callError
    /\ UNCHANGED <<tcResult, handlerResults>>
    /\ UNCHANGED suiteVars
    /\ UNCHANGED <<lifeVars, utilVars, restVars>>

\* One iteration of the step loop (lines 81-90): executeStep on the next
\* declared step, the push of its StepResult, the test of line 85.
RunStep ==
    /\ rpc = "step"
    /\ LET step == tc.steps[si]
       IN  \E out \in PerformAction(step, page, page # Null /\ IsOpen("page", page)) :
              LET sr == ExecuteStep(step, out.err)
                  more == si < Len(tc.steps)
              IN  /\ stepResults' = Append(stepResults, sr)
                  /\ raisedBy' = Append(raisedBy, out.err)
                  /\ invoked' = Append(invoked, step.step)
                  /\ interactions' = Append(interactions, out.ops)
                  /\ status' = CaseStatus(status, sr)
                  /\ IF StopsCase(sr)
                     THEN /\ error' = sr.error
                          /\ rpc' = "finish"
                          /\ UNCHANGED si
                     ELSE /\ si' = si + 1
                          /\ rpc' = IF more THEN "step" ELSE "finish"
                          /\ UNCHANGED error
    /\ UNCHANGED <<tc, artifacts, captured, escaped>>
    /\ UNCHANGED <<mode, opts, callOutcome, callError, tcResult, handlerResults>>
    /\ UNCHANGED suiteVars
    /\ UNCHANGED <<lifeVars, utilVars, restVars>>

\* The second argument of the call of line 99,
\* `status === 'FAILED' || options.captureOnSuccess`: "true", "false", or
\* "undefined" when the status is not FAILED and the option is absent.
CaptureRequested(st, o) ==
    IF st = "FAILED" THEN "true"
    ELSE IF "captureOnSuccess" \in DOMAIN o
         THEN (IF o.captureOnSuccess THEN "true" ELSE "false")
         ELSE "undefined"

\* The parameter `capture: boolean = true` of line 282: the default takes the
\* place of an undefined argument.
DefaultCapture(arg) == IF arg = "undefined" THEN TRUE ELSE arg = "true"

\* captureArtifacts (lines 282-306): what it can return. A failure of the
\* screenshot or of the log collection is caught (line 301).
CaptureArtifactsAnyPage(capture, pg) ==
    IF ~DefaultCapture(capture)
    THEN {[tried |-> FALSE, got |-> {}]}
    ELSE {[tried |-> TRUE, got |-> g] : g \in {{}, {"screenshot"}, {"screenshot", "logs"}}}
CaptureArtifacts(capture, pg) ==
    IF ~DefaultCapture(capture) \/ pg = Null
    THEN {[tried |-> FALSE, got |-> {}]}
    ELSE {[tried |-> TRUE, got |-> g] : g \in {{}, {"screenshot"}, {"screenshot", "logs"}}}

\* The TestResult of lines 101-112.
TestResult(id, st, dur, srs, er, arts) ==
    [testCaseId |-> id, status |-> st, duration |-> dur, stepResults |-> srs,
     error |-> ErrField(er), artifacts |-> arts, executedAt |-> now]

\* processResult (test-result-handler.ts, lines 18-42): the copy it returns
\* (lines 33-41), with executedAt set anew and browserInfo added.
ProcessResult(result) ==
    [browserInfo |-> "chromium"] @@ [result EXCEPT !.executedAt = now]

\* The result executeTestSuite records when executeTestCase raised (lines 325-331).
RaisedResult(id, thrown) ==
    [testCaseId |-> id, status |-> "FAILED", duration |-> 0,
     error |-> IF thrown.isError THEN thrown.message ELSE "Test execution failed",
     executedAt |-> now]

\* The test of line 320: whether the suite stops after a returned result.
StopsSuite(result, o) == result.status = "FAILED" /\ o.stopOnFailure

\* The end of executeTestCase (lines 96-114): duration, captureArtifacts,
\* the TestResult, processResult; then, in a suite, lines 317-322.
FinishCase ==
    /\ rpc = "finish"
    /\ \E cap \in CaptureArtifacts(CaptureRequested(status, opts), page) :
          LET result == TestResult(tc.id, status, Elapsed(interactions), stepResults,
                                   error, cap.got)
              returned == ProcessResult(result)
          IN  /\ artifacts' = cap.got
              /\ captured' = cap.tried
              /\ handlerResults' = Append(handlerResults, result)
              /\ IF mode = "case"
                 THEN /\ tcResult' = returned
                      /\ callOutcome' = "returned"
                      /\ rpc' = "done"
                      /\ UNCHANGED <<results, caseRaised>>
                 ELSE /\ results' = Append(results, returned)
                      /\ caseRaised' = Append(caseRaised, FALSE)
                      /\ IF StopsSuite(returned, opts)
                         THEN /\ callOutcome' = "returned"
                              /\ rpc' = "done"
                         ELSE /\ rpc' = "delay"
                              /\ UNCHANGED callOutcome
                      /\ UNCHANGED tcResult
    /\ UNCHANGED <<tc, si, stepResults, status, error, raisedBy, invoked, interactions, escaped>>
    /\ UNCHANGED <<mode, opts, callError>>
    /\ UNCHANGED <<suiteIds, ci, attempted, delays>>
    /\ UNCHANGED <<lifeVars, utilVars, restVars>>

\* --------------------------------------------------------- executeTestSuite
CaseIds == {"tc1", "tc2"}

\* The id lists of the checked suites: distinct ids, in either order.
SuiteIdLists ==
    {ids \in UNION {[1..n -> CaseIds] : n \in 0..MaxCases} :
        \A i, j \in DOMAIN ids : i # j => ids[i] # ids[j]}

\* A call of executeTestSuite (lines 311-312).
ExecuteTestSuite ==
    /\ mode = "none"
    /\ \E ids \in SuiteIdLists, o \in Options :
          /\ mode' = "suite"
          /\ opts' = o
          /\ suiteIds' = ids
    /\ ci' = 1
    /\ results' = <<>>
    /\ rpc' = "next"
    /\ callOutcome' = "running"
    /\ UNCHANGED <<attempted, caseRaised, delays>>
    /\ UNCHANGED <<callError, tcResult, handlerResults>>
    /\ UNCHANGED caseVars
    /\ UNCHANGED <<lifeVars, utilVars, restVars>>

\* for (const testCase of testCases) (line 314): the case of the i-th
\* iteration.
CurrentCaseReversed(ids, i) == ids[Len(ids) + 1 - i]
CurrentCase(ids, i) == ids[i]

\* The head of the suite's loop (lines 314-316, and 323-332 when the call of
\* executeTestCase raises at line 71), or the return of line 340. The steps
\* of a case are read by nobody before this point and are drawn here.
SuiteNext ==
    /\ rpc = "next"
    /\ IF ci > Len(suiteIds)
       THEN /\ callOutcome' = "returned"
            /\ rpc' = "done"
            /\ UNCHANGED <<results, attempted, caseRaised>>
            /\ UNCHANGED caseVars
       ELSE /\ attempted' = Append(attempted, CurrentCase(suiteIds, ci))
            /\ UNCHANGED callOutcome
            /\ IF page = Null
               THEN /\ results' = Append(results, RaisedResult(CurrentCase(suiteIds, ci), NotInitialized))
                    /\ caseRaised' = Append(caseRaised, TRUE)
                    /\ rpc' = "delay"
                    /\ UNCHANGED caseVars
               ELSE /\ \E t \in SuiteCases(CurrentCase(suiteIds, ci)) : EnterCase(t)
                    /\ UNCHANGED <<results, caseRaised>>
    /\ UNCHANGED <<mode, opts, callError, tcResult, handlerResults>>
    /\ UNCHANGED <<suiteIds, ci, delays>>
    /\ UNCHANGED <<lifeVars, utilVars, restVars>>

\* The delay between cases (lines 334-337), outside the try of line 315:
\* page.waitForTimeout resolves on an open page and rejects on a closed one.
SuiteDelay ==
    /\ rpc = "delay"
    /\ IF opts.delayBetweenTests = 0 \/ page = Null
       THEN /\ ci' = ci + 1
            /\ rpc' = "next"
            /\ UNCHANGED <<delays, callOutcome, callError>>
       ELSE IF IsOpen("page", page)
            THEN /\ delays' = Append(delays, opts.delayBetweenTests)
                 /\ ci' = ci + 1
                 /\ rpc' = "next"
                 /\ UNCHANGED <<callOutcome, callError>>
            ELSE /\ callOutcome' = "raised"
                 /\ callError' = TargetClosed
                 /\ rpc' = "done"
                 /\ UNCHANGED <<ci, delays>>
    /\ UNCHANGED <<mode, opts, tcResult, handlerResults>>
    /\ UNCHANGED <<suiteIds, results, attempted, caseRaised>>
    /\ UNCHANGED caseVars
    /\ UNCHANGED <<lifeVars, utilVars, restVars>>

\* ----------------------------------------------------------- retryOperation
\* bound of retryConfig.maxRetries
MaxRetries == 2

RetryConfigs ==
    [maxRetries : 0..MaxRetries, delay : {100, 1000}, backoff : {"linear", "exponential"}]

\* What operation() resolves to, and what it rejects with.
OpValues == {"v1", "v2"}
OpErrors == {Err("e1"), Err("e2")}
\* `undefined`: lastError before any attempt has failed
Undefined == [threw |-> TRUE, isError |-> FALSE, message |-> "<undefined>"]

RECURSIVE Pow2(_)
Pow2(n) == IF n = 0 THEN 1 ELSE 2 * Pow2(n - 1)

\* The loop test of line 420.
LoopContinuesStrict(a, cfg) == a < cfg.maxRetries
LoopContinues(a, cfg) == a <= cfg.maxRetries

\* The test of line 426: the failed attempt was the last one.
LastAttempt(a, cfg) == a = cfg.maxRetries

\* The delay before the next attempt (lines 430-432).
BackoffDelayDoubled(cfg, a) ==
    IF cfg.backoff = "exponential" THEN cfg.delay * Pow2(a + 1) ELSE cfg.delay
BackoffDelay(cfg, a) ==
    IF cfg.backoff = "exponential" THEN cfg.delay * Pow2(a) ELSE cfg.delay

\* The head of the loop (line 420) for loop variable a: operation() is
\* invoked (line 422), or the loop is over and line 439 throws lastError.
LoopHead(a, cfg, le) ==
    IF LoopContinues(a, cfg)
    THEN /\ rpos' = "attempt"
         /\ invocations' = invocations + 1
         /\ UNCHANGED retError
    ELSE /\ rpos' = "raised"
         /\ retError' = le
         /\ UNCHANGED invocations

\* A call of retryOperation (lines 414-420).
RetryOperation ==
    /\ rpos = "idle"
    /\ \E cfg \in RetryConfigs :
          /\ rcfg' = cfg
          /\ LoopHead(0, cfg, Undefined)
    /\ attempt' = 0
    /\ lastError' = Undefined
    /\ UNCHANGED <<calls, waits, retValue>>
    /\ UNCHANGED <<lifeVars, execVars, restVars>>

\* operation() settles: the return of line 422, or the catch of lines 423-435.
OperationSettles ==
    /\ rpos = "attempt"
    /\ \/ \E v \in OpValues :
             /\ calls' = Append(calls, [ok |-> TRUE, value |-> v])
             /\ retValue' = v
             /\ rpos' = "returned"
             /\ UNCHANGED <<lastError, waits, retError>>
       \/ \E e \in OpErrors :
             /\ calls' = Append(calls, [ok |-> FALSE, value |-> e])
             /\ lastError' = e
             /\ IF LastAttempt(attempt, rcfg)
                THEN /\ rpos' = "raised"
                     /\ retError' = e
                     /\ UNCHANGED waits
                ELSE /\ rpos' = "sleep"
                     /\ waits' = Append(waits, BackoffDelay(rcfg, attempt))
                     /\ UNCHANGED retError
             /\ UNCHANGED retValue
    /\ UNCHANGED <<rcfg, attempt, invocations>>
    /\ UNCHANGED <<lifeVars, execVars, restVars>>

\* The timer of line 435 fires: attempt++ and the head of the loop.
RetrySleepOver ==
    /\ rpos = "sleep"
    /\ attempt' = attempt + 1
    /\ LoopHead(attempt + 1, rcfg, lastError)
    /\ UNCHANGED <<rcfg, lastError, calls, waits, retValue>>
    /\ UNCHANGED <<lifeVars, execVars, restVars>>

\* ------------------------------------- smartClick, smartFill, smartSelect
\* Each of them (lines 51-84, 103-125, 229-249) is waitForElement (lines
\* 27-46), whose retryOperation call waits for the element, and then a second
\* retryOperation call around its own operation, both with
\* this.config.retryConfig. A driver call resolves or rejects.

\* One entry of strace: a driver call of iteration `attempt` of the running
\* retryOperation call, whether it resolved, and what it resolved with.
DriverCall(name, ok, val) ==
    [phase |-> sphase, att |-> attempt, call |-> name, ok |-> ok, val |-> val]

NoValue == "<void>"

\* What a rejected driver call rejects with.
Rejected(name) == Err(name \o ": Timeout 30000ms exceeded.")

\* Where the operation of each begins.
OpStart(op) ==
    CASE op = "click"  -> "c_click"
      [] op = "fill"   -> "f_write"
      [] op = "select" -> "sel_value"

\* The entry of a smart operation: waitForElement's first locator.waitFor()
\* (lines 56/109/235, then 33-42).
SmartEnter(op) ==
    /\ rpos = "idle"
    /\ sop' = op
    /\ sphase' = "wait"
    /\ strace' = <<>>
    /\ \E cfg \in RetryConfigs : rcfg' = cfg
    /\ attempt' = 0
    /\ lastError' = Undefined
    /\ waits' = <<>>
    /\ rpos' = "s_wait"
    /\ UNCHANGED <<invocations, calls, retValue, retError>>
    /\ UNCHANGED <<lifeVars, execVars, handlerVars, moreVars>>

\* The operation of the running retryOperation call threw e: the catch of
\* lines 423-435.
IterationFails(e) ==
    /\ lastError' = e
    /\ IF LastAttempt(attempt, rcfg)
       THEN /\ rpos' = "raised"
            /\ retError' = e
            /\ UNCHANGED waits
       ELSE /\ rpos' = "s_sleep"
            /\ waits' = Append(waits, BackoffDelay(rcfg, attempt))
            /\ UNCHANGED retError

\* The operation of the second retryOperation call returned: line 422, and
\* the smart operation returns.
IterationSucceeds ==
    /\ rpos' = "returned"
    /\ UNCHANGED <<lastError, waits, retError>>

\* Inside the operation: on to the next await.
GoesOn(pos) ==
    /\ rpos' = pos
    /\ UNCHANGED <<lastError, waits, retError>>

\* locator.waitFor() settles (line 42): waitForElement returns the locator and
\* the second retryOperation call begins, or the wait is retried.
WaitForElement ==
    /\ rpos = "s_wait"
    /\ \/ /\ strace' = Append(strace, DriverCall("waitFor", TRUE, NoValue))
          /\ sphase' = "op"
          /\ attempt' = 0
          /\ lastError' = Undefined
          /\ rpos' = OpStart(sop)
          /\ UNCHANGED <<waits, retError>>
       \/ /\ strace' = Append(strace, DriverCall("waitFor", FALSE, NoValue))
          /\ IterationFails(Rejected("locator.waitFor"))
          /\ UNCHANGED <<sphase, attempt>>
    /\ UNCHANGED <<sop, fillText, elValue, selWanted, selOptions, selected>>
    /\ UNCHANGED <<rcfg, invocations, calls, retValue>>
    /\ UNCHANGED <<lifeVars, execVars, handlerVars, moreVars>>

\* The timer of line 435 fires in either retryOperation call: attempt++ and
\* the head of the loop (line 420).
SmartSleepOver ==
    /\ rpos = "s_sleep"
    /\ attempt' = attempt + 1
    /\ IF LoopContinues(attempt + 1, rcfg)
       THEN /\ rpos' = IF sphase = "wait" THEN "s_wait" ELSE OpStart(sop)
            /\ UNCHANGED retError
       ELSE /\ rpos' = "raised"
            /\ retError' = lastError
    /\ UNCHANGED smartVars
    /\ UNCHANGED <<rcfg, lastError, invocations, calls, waits, retValue>>
    /\ UNCHANGED <<lifeVars, execVars, handlerVars, moreVars>>

\* ---------------------------------------------------------------- smartClick
SmartClick == 
    /\ SmartEnter("click")
    /\ UNCHANGED <<fillText, elValue, selWanted, selOptions, selected>>

\* Where smartClick goes when a click strategy failed: the catch of line 68
\* after the plain click, the catch of line 78 after the forced click.
NextStrategySkipsForced(pos) == "c_js"
NextStrategy(pos) == IF pos = "c_click" THEN "c_scroll" ELSE "c_js"

\* locator.click(clickOptions) settles (line 67).
ClickPlain ==
    /\ rpos = "c_click"
    /\ \/ /\ strace' = Append(strace, DriverCall("click", TRUE, NoValue))
          /\ IterationSucceeds
       \/ /\ strace' = Append(strace, DriverCall("click", FALSE, NoValue))
          /\ GoesOn(NextStrategy("c_click"))
    /\ UNCHANGED <<sop, sphase, fillText, elValue, selWanted, selOptions, selected>>
    /\ UNCHANGED <<rcfg, attempt, invocations, calls, retValue>>
    /\ UNCHANGED <<lifeVars, execVars, handlerVars, moreVars>>

\* scrollIntoViewIfNeeded() and waitForTimeout(500) (lines 73-74), outside
\* the inner try: either can end the iteration.
ClickScroll ==
    /\ rpos = "c_scroll"
    /\ \/ /\ strace' = Append(strace, DriverCall("scroll", FALSE, NoValue))
          /\ IterationFails(Rejected("locator.scrollIntoViewIfNeeded"))
       \/ /\ strace' = strace \o <<DriverCall("scroll", TRUE, NoValue),
                                   DriverCall("pause", FALSE, NoValue)>>
          /\ IterationFails(Rejected("page.waitForTimeout"))
       \/ /\ strace' = strace \o <<DriverCall("scroll", TRUE, NoValue),
                                   DriverCall("pause", TRUE, NoValue)>>
          /\ GoesOn("c_force")
    /\ UNCHANGED <<sop, sphase, fillText, elValue, selWanted, selOptions, selected>>
    /\ UNCHANGED <<rcfg, attempt, invocations, calls, retValue>>
    /\ UNCHANGED <<lifeVars, execVars, handlerVars, moreVars>>

\* locator.click({ force: true }) settles (line 77).
ClickForced ==
    /\ rpos = "c_force"
    /\ \/ /\ strace' = Append(strace, DriverCall("force", TRUE, NoValue))
          /\ IterationSucceeds
       \/ /\ strace' = Append(strace, DriverCall("force", FALSE, NoValue))
          /\ GoesOn(NextStrategy("c_force"))
    /\ UNCHANGED <<sop, sphase, fillText, elValue, selWanted, selOptions, selected>>
    /\ UNCHANGED <<rcfg, attempt, invocations, calls, retValue>>
    /\ UNCHANGED <<lifeVars, execVars, handlerVars, moreVars>>

ElementNotFound == Err("page.evaluate: Error: Element not found: #sel")

\* jsClick (lines 89-98): the click dispatched inside the page, or its throw.
JsClick ==
    /\ rpos = "c_js"
    /\ \/ /\ strace' = Append(strace, DriverCall("js", TRUE, NoValue))
          /\ IterationSucceeds
       \/ /\ strace' = Append(strace, DriverCall("js", FALSE, NoValue))
          /\ \E e \in {ElementNotFound, Rejected("page.evaluate")} : IterationFails(e)
    /\ UNCHANGED <<sop, sphase, fillText, elValue, selWanted, selOptions, selected>>
    /\ UNCHANGED <<rcfg, attempt, invocations, calls, retValue>>
    /\ UNCHANGED <<lifeVars, execVars, handlerVars, moreVars>>

\* ----------------------------------------------------------------- smartFill
\* The texts written, and the values the element can have: what was written,
\* or what the page made of it.
FillTexts == {"ab", "AB"}
FieldValues == {"ab", "AB"}

SmartFill ==
    /\ SmartEnter("fill")
    /\ \E t \in FillTexts, v \in FieldValues :
          /\ fillText' = t
          /\ elValue' = v
    /\ UNCHANGED <<selWanted, selOptions, selected>>

\* The test of line 121.
ValidationFailsNever(actual, text) == FALSE
ValidationFails(actual, text) == actual # text

\* The error of line 122.
ValidationError(text, actual) ==
    Err("Text input validation failed. Expected: \"" \o text \o "\", Actual: \""
           \o actual \o "\"")

\* locator.clear(), waitForTimeout(100), locator.fill(text) (lines 113-117).
FillWrite ==
    /\ rpos = "f_write"
    /\ \/ /\ strace' = Append(strace, DriverCall("clear", FALSE, NoValue))
          /\ IterationFails(Rejected("locator.clear"))
          /\ UNCHANGED elValue
       \/ /\ strace' = strace \o <<DriverCall("clear", TRUE, NoValue),
                                   DriverCall("pause", FALSE, NoValue)>>
          /\ IterationFails(Rejected("page.waitForTimeout"))
          /\ elValue' = ""
       \/ /\ strace' = strace \o <<DriverCall("clear", TRUE, NoValue),
                                   DriverCall("pause", TRUE, NoValue),
                                   DriverCall("fill", FALSE, NoValue)>>
          /\ IterationFails(Rejected("locator.fill"))
          /\ elValue' = ""
       \/ /\ strace' = strace \o <<DriverCall("clear", TRUE, NoValue),
                                   DriverCall("pause", TRUE, NoValue),
                                   DriverCall("fill", TRUE, NoValue)>>
          /\ GoesOn("f_read")
          /\ elValue' \in {fillText} \cup FieldValues
    /\ UNCHANGED <<sop, sphase, fillText, selWanted, selOptions, selected>>
    /\ UNCHANGED <<rcfg, attempt, invocations, calls, retValue>>
    /\ UNCHANGED <<lifeVars, execVars, handlerVars, moreVars>>

\* locator.inputValue() and the validation (lines 120-123).
FillValidate ==
    /\ rpos = "f_read"
    /\ \/ /\ strace' = Append(strace, DriverCall("inputValue", FALSE, NoValue))
          /\ IterationFails(Rejected("locator.inputValue"))
       \/ /\ strace' = Append(strace, DriverCall("inputValue", TRUE, elValue))
          /\ IF ValidationFails(elValue, fillText)
             THEN IterationFails(ValidationError(fillText, elValue))
             ELSE IterationSucceeds
    /\ UNCHANGED <<sop, sphase, fillText, elValue, selWanted, selOptions, selected>>
    /\ UNCHANGED <<rcfg, attempt, invocations, calls, retValue>>
    /\ UNCHANGED <<lifeVars, execVars, handlerVars, moreVars>>

\* --------------------------------------------------------------- smartSelect
\* bound of the number of options of the select element
MaxOptions == 2

\* Strings are sequences of characters here, for trim().
\* The options: two with the same value, one whose text has spaces around it.
OptionPool ==
    { [value |-> <<"x">>, text |-> <<"A">>],
      [value |-> <<"x">>, text |-> <<" ", "B", " ">>],
      [value |-> <<"B">>, text |-> <<"C">>] }

OptionLists == UNION {[1..n -> OptionPool] : n \in 0..MaxOptions}

\* The value or label asked for (a single string, not a list).
Wanted == {<<"B">>, <<"Z">>}

SmartSelect ==
    /\ SmartEnter("select")
    /\ \E w \in Wanted, os \in OptionLists :
          /\ selWanted' = w
          /\ selOptions' = os
    /\ selected' = 0
    /\ UNCHANGED <<fillText, elValue>>

\* String.prototype.trim (line 259).
RECURSIVE TrimStart(_)
TrimStart(t) == IF t # <<>> /\ Head(t) = " " THEN TrimStart(Tail(t)) ELSE t
RECURSIVE TrimEnd(_)
TrimEnd(t) ==
    IF t # <<>> /\ t[Len(t)] = " " THEN TrimEnd(SubSeq(t, 1, Len(t) - 1)) ELSE t
Trim(t) == TrimEnd(TrimStart(t))

\* The first index of a sequence that satisfies a test, or 0.
FirstIndex(found) ==
    IF found = {} THEN 0 ELSE CHOOSE i \in found : \A j \in found : i <= j

\* The option that `selectEl.value = v` selects (line 261): the first one with
\* this value.
FirstWithValue(os, v) == FirstIndex({i \in 1..Len(os) : os[i].value = v})

\* options.find(opt => opt.text.trim() === labelText) (line 259).
FindByLabel(os, label) == FirstIndex({i \in 1..Len(os) : Trim(os[i].text) = label})

OptionNotFound == Err("page.evaluate: Error: Option with label not found")

\* locator.selectOption(value) settles (line 240): it resolves only if it
\* found an option with this value, and has selected it then.
SelectByValue ==
    /\ rpos = "sel_value"
    /\ \/ /\ FirstWithValue(selOptions, selWanted) # 0
          /\ strace' = Append(strace, DriverCall("selectOption", TRUE, NoValue))
          /\ selected' = FirstWithValue(selOptions, selWanted)
          /\ IterationSucceeds
       \/ /\ strace' = Append(strace, DriverCall("selectOption", FALSE, NoValue))
          /\ GoesOn("sel_handle")
          /\ UNCHANGED selected
    /\ UNCHANGED <<sop, sphase, fillText, elValue, selWanted, selOptions>>
    /\ UNCHANGED <<rcfg, attempt, invocations, calls, retValue>>
    /\ UNCHANGED <<lifeVars, execVars, handlerVars, moreVars>>

\* locator.elementHandle() settles and the test of line 244: the handle, or
\* null (its declared result is ElementHandle | null), or a rejection.
SelectHandle ==
    /\ rpos = "sel_handle"
    /\ \/ /\ strace' = Append(strace, DriverCall("elementHandle", FALSE, NoValue))
          /\ IterationFails(Rejected("locator.elementHandle"))
       \/ /\ strace' = Append(strace, DriverCall("elementHandle", TRUE, "null"))
          /\ IterationSucceeds
       \/ /\ strace' = Append(strace, DriverCall("elementHandle", TRUE, "handle"))
          /\ GoesOn("sel_label")
    /\ UNCHANGED <<sop, sphase, fillText, elValue, selWanted, selOptions, selected>>
    /\ UNCHANGED <<rcfg, attempt, invocations, calls, retValue>>
    /\ UNCHANGED <<lifeVars, execVars, handlerVars, moreVars>>

\* selectByLabel (lines 254-269): the evaluation inside the page.
SelectByLabel ==
    /\ rpos = "sel_label"
    /\ \/ /\ strace' = Append(strace, DriverCall("evaluate", FALSE, NoValue))
          /\ IterationFails(Rejected("page.evaluate"))
          /\ UNCHANGED selected
       \/ LET found == FindByLabel(selOptions, selWanted)
          IN  IF found # 0
              THEN /\ strace' = Append(strace, DriverCall("evaluate", TRUE, NoValue))
                   /\ selected' = FirstWithValue(selOptions, selOptions[found].value)
                   /\ IterationSucceeds
              ELSE /\ strace' = Append(strace, DriverCall("evaluate", FALSE, NoValue))
                   /\ IterationFails(OptionNotFound)
                   /\ UNCHANGED selected
    /\ UNCHANGED <<sop, sphase, fillText, elValue, selWanted, selOptions>>
    /\ UNCHANGED <<rcfg, attempt, invocations, calls, retValue>>
    /\ UNCHANGED <<lifeVars, execVars, handlerVars, moreVars>>

\* --------------------------------------------------------- TestResultHandler
\* bound of the number of processResult calls on the handler
MaxResults == 2
\* bound of the clock
MaxTime == 1

\* Before the first processResult call.
NoCall == [testCaseId |-> "<none>"]

\* What the last call on the handler returned, when it was no report.
NoReport == [kind |-> "none"]

\* The clock advances.
Tick ==
    /\ now < MaxTime
    /\ now' = now + 1
    /\ hReport' = NoReport
    /\ UNCHANGED <<hEvents, hResults, hStart, hSince, hCalls, hIn, hOut, hLog>>
    /\ UNCHANGED <<lifeVars, execVars, utilVars, smartVars, moreVars>>

\* TestExecutionEvents (types.ts, lines 365-380): the listeners of a test.
EventNames == {"onTestStart", "onTestComplete", "onTestFailure"}

\* setEventHandlers (lines 187-189), and the constructor's events (line 12):
\* the given listeners are registered on top of the registered ones.
SetEventHandlers ==
    /\ \E events \in (SUBSET EventNames) \ {{}} :
          /\ ~(events \subseteq hEvents)
          /\ hEvents' = hEvents \cup events
    /\ hReport' = NoReport
    /\ UNCHANGED <<now, hResults, hStart, hSince, hCalls, hIn, hOut, hLog>>
    /\ UNCHANGED <<lifeVars, execVars, utilVars, smartVars, moreVars>>

\* The TestResults passed to processResult: metrics is the load time of its
\* performanceMetrics, 0 without them.
ResultPool ==
    { [testCaseId |-> "tc1", status |-> "PASSED", duration |-> 5, stepResults |-> <<>>,
       error |-> NoMsg, artifacts |-> {}, executedAt |-> 0, metrics |-> 0],
      [testCaseId |-> "tc1", status |-> "FAILED", duration |-> 7, stepResults |-> <<>>,
       error |-> "boom", artifacts |-> {}, executedAt |-> 0, metrics |-> 1],
      [testCaseId |-> "tc2", status |-> "FAILED", duration |-> 7, stepResults |-> <<>>,
       error |-> NoMsg, artifacts |-> {}, executedAt |-> 0, metrics |-> 2] }

\* this.results.push(result) (line 20).
PushFront(rs, r) == <<r>> \o rs
Push(rs, r) == Append(rs, r)

\* The second argument of onTestFailure (line 29): result.error || 'Test failed'.
FailureArg(r) == IF r.error = NoMsg \/ r.error = "" THEN "Test failed" ELSE r.error

\* A listener invocation of the processResult call on r: seen is this.results
\* at that moment.
Invocation(event, r, arg, seen) ==
    [event |-> event, testId |-> r.testCaseId, arg |-> arg, seen |-> seen]

\* How a processResult call ended: with the value it returned or by the throw
\* of a listener; events is this.events during the call.
Ended(raised, value) == [raised |-> raised, value |-> value, events |-> hEvents]

\* processResult(r) (lines 18-42): the push, the listeners registered for it,
\* either of which can throw, and the copy returned.
Process(r) ==
    LET pushed   == Push(hResults, r)
        complete == IF "onTestComplete" \in hEvents
                    THEN <<Invocation("onTestComplete", r, r, pushed)>> ELSE <<>>
        failing  == r.status = "FAILED" /\ "onTestFailure" \in hEvents
        failure  == IF failing
                    THEN <<Invocation("onTestFailure", r, FailureArg(r), pushed)>> ELSE <<>>
    IN  /\ hResults' = pushed
        /\ hSince' = Append(hSince, r)
        /\ hCalls' = hCalls + 1
        /\ hIn' = r
        /\ \/ /\ complete # <<>>
              /\ hLog' = complete
              /\ hOut' = Ended(TRUE, r)
           \/ /\ failing
              /\ hLog' = complete \o failure
              /\ hOut' = Ended(TRUE, r)
           \/ /\ hLog' = complete \o failure
              /\ hOut' = Ended(FALSE, ProcessResult(r))

\* A processResult call on the handler.
ProcessResultCall ==
    /\ hCalls < MaxResults
    /\ \E r \in ResultPool : Process(r)
    /\ hReport' = NoReport
    /\ UNCHANGED <<now, hEvents, hStart>>
    /\ UNCHANGED <<lifeVars, execVars, utilVars, smartVars, moreVars>>

\* clearResults (lines 179-182).
ClearResults ==
    /\ hResults' = <<>>
    /\ hStart' = now
    /\ hSince' = <<>>
    /\ hReport' = NoReport
    /\ UNCHANGED <<now, hEvents, hCalls, hIn, hOut, hLog>>
    /\ UNCHANGED <<lifeVars, execVars, utilVars, smartVars, moreVars>>

\* getAllResults (lines 194-196): a copy of this.results.
GetAllResults == [i \in 1..Len(hResults) |-> hResults[i]]

\* results.filter(...).length (lines 53-56).
CountDistinct(rs, st) == Cardinality({rs[i] : i \in {j \in 1..Len(rs) : rs[j].status = st}})
CountStatus(rs, st) == Cardinality({i \in 1..Len(rs) : rs[i].status = st})

\* The TestSummary of generateSummary (lines 51-65) for the results rs.
Summary(rs) ==
    [kind |-> "summary", total |-> Len(rs),
     passed |-> CountStatus(rs, "PASSED"),
     failed |-> CountStatus(rs, "FAILED"),
     skipped |-> CountStatus(rs, "SKIPPED"),
     flaky |-> CountStatus(rs, "FLAKY"),
     duration |-> Sum([i \in 1..Len(rs) |-> rs[i].duration]),
     startTime |-> hStart, endTime |-> now]

\* generateSummary (lines 47-68) on this.results.
GenerateSummary ==
    /\ hReport' = Summary(hResults)
    /\ hReport' # hReport
    /\ UNCHANGED <<now, hEvents, hResults, hStart, hSince, hCalls, hIn, hOut, hLog>>
    /\ UNCHANGED <<lifeVars, execVars, utilVars, smartVars, moreVars>>

\* getFailureAnalysis (lines 120-139) on this.results.
GetFailureAnalysis ==
    /\ LET failed == SelectSeq(hResults, LAMBDA r : r.status = "FAILED")
       IN  hReport' = IF failed = <<>>
                      THEN [kind |-> "failures", hasFailures |-> FALSE]
                      ELSE [kind |-> "failures", hasFailures |-> TRUE,
                            totalFailures |-> Len(failed)]
    /\ hReport' # hReport
    /\ UNCHANGED <<now, hEvents, hResults, hStart, hSince, hCalls, hIn, hOut, hLog>>
    /\ UNCHANGED <<lifeVars, execVars, utilVars, smartVars, moreVars>>

\* Array.prototype.sort by descending metric (line 422), on the array given.
RECURSIVE InsertDesc(_, _)
InsertDesc(r, sorted) ==
    IF sorted = <<>> \/ Head(sorted).metrics < r.metrics
    THEN <<r>> \o sorted
    ELSE <<Head(sorted)>> \o InsertDesc(r, Tail(sorted))
RECURSIVE SortDesc(_)
SortDesc(rs) ==
    IF rs = <<>> THEN <<>>
    ELSE InsertDesc(rs[Len(rs)], SortDesc(SubSeq(rs, 1, Len(rs) - 1)))

\* getPerformanceSummary (lines 155-174) on this.results: the sort of
\* getTopNByMetric (lines 420-425) is on the filtered copy of line 156.
GetPerformanceSummary ==
    /\ LET withMetrics == SelectSeq(hResults, LAMBDA r : r.metrics # 0)
           sorted == SortDesc(withMetrics)
       IN  hReport' = IF withMetrics = <<>>
                      THEN [kind |-> "performance", hasMetrics |-> FALSE]
                      ELSE [kind |-> "performance", hasMetrics |-> TRUE,
                            slowestTests |-> [i \in 1..Len(sorted) |-> sorted[i].testCaseId]]
    /\ hReport' # hReport
    /\ UNCHANGED <<now, hEvents, hResults, hStart, hSince, hCalls, hIn, hOut, hLog>>
    /\ UNCHANGED <<lifeVars, execVars, utilVars, smartVars, moreVars>>

\* exportToJson, exportToHtml, exportToJunit (lines 73-115) on this.results:
\* the report written has one entry per result (lines 80, 306, 322).
ExportResults ==
    /\ \E format \in {"json", "html", "junit"} :
          hReport' = [kind |-> format, total |-> Len(hResults),
                      entries |-> [i \in 1..Len(hResults) |-> hResults[i].testCaseId]]
    /\ hReport' # hReport
    /\ UNCHANGED <<now, hEvents, hResults, hStart, hSince, hCalls, hIn, hOut, hLog>>
    /\ UNCHANGED <<lifeVars, execVars, utilVars, smartVars, moreVars>>

\* ---------------------------------------------------------- AutomationEngine
\* executeTest (index.ts, lines 142-145), after the executor's executeTestCase
\* returned: the engine's own handler processes the result.
ExecuteTestProcess ==
    /\ mode = "case" /\ callOutcome = "returned"
    /\ hCalls = 0
    /\ Process(tcResult)
    /\ hReport' = NoReport
    /\ UNCHANGED <<now, hEvents, hStart>>
    /\ UNCHANGED <<lifeVars, execVars, utilVars, smartVars, moreVars>>

\* ------------------------------------------------ reports of given results
\* bound of the length of a result set given to a report
MaxGiven == 2

\* TestResult.status (types.ts, line 91).
Statuses == {"PASSED", "FAILED", "SKIPPED", "FLAKY"}

\* The results of the result sets given to generateSummary.
GivenResults ==
    [testCaseId : {"tc1"}, status : Statuses, duration : {5}]
        \cup {[testCaseId |-> "tc1", status |-> "FAILED", duration |-> 7]}

ResultSets == UNION {[1..n -> GivenResults] : n \in 0..MaxGiven}

\* generateSummary(results) (lines 47-68), on the results given or, with no
\* argument, on this.results; `of` is the result set it worked on.
GenerateSummaryOf ==
    /\ \E rs \in {hResults} \cup ResultSets :
          hReport' = [of |-> rs] @@ Summary(rs)
    /\ hReport' # hReport
    /\ UNCHANGED <<now, hEvents, hResults, hStart, hSince, hCalls, hIn, hOut, hLog>>
    /\ UNCHANGED <<lifeVars, execVars, utilVars, smartVars, moreVars>>

\* ------------------------------------------------------------- exportToJunit
\* Strings are sequences of characters here.
\* bound of the length of a test name and of an error message
MaxText == 2

\* The characters escapeXml replaces (lines 343-347), and one it does not.
XmlSpecial == {"&", "<", ">", "\"", "'"}
XmlChars == XmlSpecial \cup {"a"}

Texts == UNION {[1..n -> XmlChars] : n \in 0..MaxText}

\* str.replace(/c/g, by): every occurrence of the character c, left to right.
RECURSIVE ReplaceAll(_, _, _)
ReplaceAll(str, c, by) ==
    IF str = <<>> THEN <<>>
    ELSE (IF Head(str) = c THEN by ELSE <<Head(str)>>) \o ReplaceAll(Tail(str), c, by)

\* escapeXml (lines 341-348): the five replacements, in this order.
EscapeXml(str) ==
    LET amp  == ReplaceAll(str, "&", <<"&", "a", "m", "p", ";">>)
        lt   == ReplaceAll(amp, "<", <<"&", "l", "t", ";">>)
        gt   == ReplaceAll(lt, ">", <<"&", "g", "t", ";">>)
        quot == ReplaceAll(gt, "\"", <<"&", "q", "u", "o", "t", ";">>)
    IN  ReplaceAll(quot, "'", <<"&", "a", "p", "o", "s", ";">>)

TestFailed == <<"T", "e", "s", "t", " ", "f", "a", "i", "l", "e", "d">>

\* result.error || alt (line 326): error is optional, and '' is falsy.
ErrorOr(result, alt) ==
    IF "error" \in DOMAIN result /\ result.error # <<>> THEN result.error ELSE alt

\* The <testcase> element of a result (lines 323-332): what is put in the
\* holes of its template literals.
JunitTestCase(result) ==
    [name  |-> result.testCaseId,
     time  |-> result.duration,
     child |-> CASE result.status = "FAILED" ->
                      [kind |-> "failure",
                       message |-> EscapeXml(ErrorOr(result, TestFailed)),
                       text |-> EscapeXml(ErrorOr(result, <<>>))]
                 [] result.status = "SKIPPED" -> [kind |-> "skipped"]
                 [] OTHER -> [kind |-> "none"]]

\* generateJunitXml (lines 321-339).
GenerateJunitXml(rs) ==
    [tests |-> Len(rs), failures |-> CountStatus(rs, "FAILED"),
     skipped |-> CountStatus(rs, "SKIPPED"),
     testcases |-> [i \in 1..Len(rs) |-> JunitTestCase(rs[i])]]

\* The results exported: a name, a status, and an error or none.
JunitResults ==
    [testCaseId : Texts \ {<<>>}, status : {"PASSED", "SKIPPED", "FAILED"}, duration : {5}]
        \cup [testCaseId : Texts \ {<<>>}, status : {"FAILED"}, duration : {5},
              error : Texts]

\* exportToJunit(filePath, results) (lines 106-115).
ExportToJunit ==
    /\ fnName = "none"
    /\ \E r \in JunitResults, more \in BOOLEAN :
          LET rs == IF more THEN <<r, r>> ELSE <<r>>
          IN  /\ fnName' = "exportToJunit"
              /\ fnIn' = rs
              /\ fnOut' = GenerateJunitXml(rs)
    /\ UNCHANGED <<dataVars, concVars, engineVars>>
    /\ UNCHANGED <<lifeVars, execVars, utilVars, smartVars, handlerVars>>

\* --------------------------------------------------------------- resolveValue
\* bound of the number of segments (texts, placeholders) of a value
MaxSegments == 3

\* \w of the regular expression of line 274, as far as the values here go.
WordChars == {"a", "c", "k", "m", "n", "o", "r", "s", "t", "u", "x", "5", "_"}

Constructor == <<"c", "o", "n", "s", "t", "r", "u", "c", "t", "o", "r">>

\* Property names every object inherits from Object.prototype (constructor,
\* toString, valueOf, ...): the one used here.
InheritedKeys == {Constructor}

\* The values of testData and step.data: strings and numbers.
StringValue(chars) == [type |-> "string", chars |-> chars]
NumberValue(n) == [type |-> "number", n |-> n]
UndefinedValue == [type |-> "undefined"]
FunctionValue(name) == [type |-> "function", name |-> name]

\* data[key] (line 275): an own property, else an inherited one, else
\* undefined.
Lookup(data, key) ==
    IF key \in DOMAIN data THEN data[key]
    ELSE IF key \in InheritedKeys THEN FunctionValue(key)
    ELSE UndefinedValue

DigitChars == <<"0", "1", "2", "3", "4", "5", "6", "7", "8", "9">>

RECURSIVE NumberString(_)
NumberString(n) ==
    IF n < 10 THEN <<DigitChars[n + 1]>>
    ELSE NumberString(n \div 10) \o <<DigitChars[(n % 10) + 1]>>

\* String(v) (line 275).
StringOf(v) ==
    CASE v.type = "string" -> v.chars
      [] v.type = "number" -> NumberString(v.n)
      [] v.type = "function" ->
            <<"f", "u", "n", "c", "t", "i", "o", "n", " ", "O", "b", "j", "e", "c", "t",
              "(", ")", " ", "{", " ", "[", "n", "a", "t", "i", "v", "e", " ", "c", "o",
              "d", "e", "]", " ", "}">>
      [] OTHER -> <<"u", "n", "d", "e", "f", "i", "n", "e", "d">>

\* The length of the longest run of \w characters of str from position i.
RECURSIVE WordRun(_, _)
WordRun(str, i) ==
    IF i <= Len(str) /\ str[i] \in WordChars THEN 1 + WordRun(str, i + 1) ELSE 0

\* /\{\{(\w+)\}\}/ at position i of str: the length of the key it matches
\* there, or 0 if it does not match.
MatchAt(str, i) ==
    IF i + 1 <= Len(str) /\ str[i] = "{" /\ str[i + 1] = "{"
    THEN LET n == WordRun(str, i + 2)
         IN  IF n > 0 /\ i + 3 + n <= Len(str)
                    /\ str[i + 2 + n] = "}" /\ str[i + 3 + n] = "}"
             THEN n ELSE 0
    ELSE 0

\* value.replace(/\{\{(\w+)\}\}/g, (match, key) => ...) from position i on
\* (lines 274-276): the matches, left to right, without overlap.
RECURSIVE ResolveFrom(_, _, _)
ResolveFrom(str, i, data) ==
    IF i > Len(str) THEN <<>>
    ELSE LET n == MatchAt(str, i)
         IN  IF n = 0 THEN <<str[i]>> \o ResolveFrom(str, i + 1, data)
             ELSE LET found == Lookup(data, SubSeq(str, i + 2, i + 1 + n))
                  IN  (IF found # UndefinedValue
                       THEN StringOf(found)
                       ELSE SubSeq(str, i, i + 3 + n))
                          \o ResolveFrom(str, i + 4 + n, data)

\* resolveValue (lines 273-277).
ResolveValue(value, data) == ResolveFrom(value, 1, data)

\* The segments of the values resolved: texts, and placeholders {{key}}.
Text(chars) == [key |-> FALSE, chars |-> chars]
Placeholder(key) == [key |-> TRUE, chars |-> key]
Segments ==
    {Text(<<"a">>), Text(<<"{">>), Placeholder(<<"k">>), Placeholder(<<"n">>),
     Placeholder(<<"m">>), Placeholder(<<"u", "-", "k">>), Placeholder(Constructor)}

SegmentLists == UNION {[1..n -> Segments] : n \in 0..MaxSegments}

\* A segment as it is written in a value, and the value of a list of them.
Written(seg) == IF seg.key THEN <<"{", "{">> \o seg.chars \o <<"}", "}">> ELSE seg.chars

RECURSIVE ValueOf(_)
ValueOf(segs) == IF segs = <<>> THEN <<>> ELSE Written(Head(segs)) \o ValueOf(Tail(segs))

\* The data the values are resolved against.
DataPool ==
    { <<>>,
      (<<"k">> :> StringValue(<<"x">>)),
      (<<"k">> :> StringValue(<<"x">>)) @@ (<<"n">> :> NumberValue(15))
         @@ (<<"u", "-", "k">> :> StringValue(<<"s">>)),
      (<<"k">> :> StringValue(<<"{", "{", "n", "}", "}">>)) @@ (<<"n">> :> NumberValue(5)) }

\* A resolveValue call.
ResolveValueCall ==
    /\ fnName = "none"
    /\ \E segs \in SegmentLists, data \in DataPool :
          /\ fnName' = "resolveValue"
          /\ fnIn' = [segments |-> segs, data |-> data]
          /\ fnOut' = [raised |-> FALSE, value |-> ResolveValue(ValueOf(segs), data)]
    /\ UNCHANGED <<dataVars, concVars, engineVars>>
    /\ UNCHANGED <<lifeVars, execVars, utilVars, smartVars, handlerVars>>

\* ------------------------------------------------- test data of a test case
\* bound of the number of steps of a test case with data
MaxDataSteps == 2

\* { ...testData, ...data } (line 154): a new object with the properties of
\* testData, then those of data, which overwrite them.
SpreadCaseWins(testData, data) ==
    [key \in DOMAIN testData \cup DOMAIN data |->
        IF key \in DOMAIN testData THEN testData[key] ELSE data[key]]
Spread(testData, data) ==
    [key \in DOMAIN testData \cup DOMAIN data |->
        IF key \in DOMAIN data THEN data[key] ELSE testData[key]]

\* TestCase.testData of the test cases here; an absent step.data spreads as
\* no property.
CaseData ==
    { <<>>,
      (<<"k">> :> StringValue(<<"x">>)),
      (<<"k">> :> StringValue(<<"x">>)) @@ (<<"n">> :> NumberValue(15)) }
StepData ==
    { <<>>,
      (<<"k">> :> StringValue(<<"s">>)),
      (<<"n">> :> NumberValue(5)) }

\* The steps: fill and navigate steps, whose value is step.expected resolved
\* (lines 158, 168).
DataSteps ==
    [action : {"fill"}, expected : {<<"{", "{", "k", "}", "}">>}, data : StepData]
       \cup [action : {"navigate"},
             expected : {<<"a", "{", "{", "k", "}", "}", "{", "{", "n", "}", "}">>},
             data : StepData]

DataCases ==
    [testData : CaseData,
     steps : UNION {[1..n -> DataSteps] : n \in 0..MaxDataSteps}]

\* executeTestCase on an executor with a page (lines 69-80), as far as the
\* data go.
ExecuteDataCase ==
    /\ dSi = 0
    /\ \E t \in DataCases :
          /\ dTc' = t
          /\ dData' = t.testData
    /\ dSi' = 1
    /\ dLog' = <<>>
    /\ UNCHANGED <<pureVars, concVars, engineVars>>
    /\ UNCHANGED <<lifeVars, execVars, utilVars, smartVars, handlerVars>>

\* One iteration of the step loop (lines 80-89) for a step that resolves
\* step.expected: performAction merges (line 154), resolves and passes the
\* value to the driver, which resolves or rejects; the loop ends after a step
\* that failed.
RunDataStep ==
    /\ dSi >= 1
    /\ dSi <= Len(dTc.steps)
    /\ LET step   == dTc.steps[dSi]
           merged == Spread(dData, step.data)
           value  == ResolveValue(step.expected, merged)
       IN  \E ok \in BOOLEAN :
              /\ dLog' = Append(dLog, [step |-> dSi, value |-> value, passed |-> ok])
              /\ dSi' = IF ok THEN dSi + 1 ELSE Len(dTc.steps) + 1
    /\ UNCHANGED <<dTc, dData>>
    /\ UNCHANGED <<pureVars, concVars, engineVars>>
    /\ UNCHANGED <<lifeVars, execVars, utilVars, smartVars, handlerVars>>

\* ------------------------------------------ assertions on the URL and title
\* bound of the length of the text looked for, of the URL and of the title
MaxNeedle == 2

UrlPrefix == <<"u", "r", "l", ":">>
TitlePrefix == <<"t", "i", "t", "l", "e", ":">>
TitleContainsPrefix ==
    <<"t", "i", "t", "l", "e", "_", "c", "o", "n", "t", "a", "i", "n", "s", ":">>

\* str.startsWith(prefix).
StartsWith(str, prefix) ==
    Len(str) >= Len(prefix) /\ SubSeq(str, 1, Len(prefix)) = prefix

\* str.indexOf(sub), counted from 1; 0 if sub does not occur.
IndexOf(str, sub) ==
    FirstIndex({i \in 1..(Len(str) - Len(sub) + 1) : SubSeq(str, i, i + Len(sub) - 1) = sub})

\* str.includes(sub).
IncludesAtStart(str, sub) == StartsWith(str, sub)
Includes(str, sub) == IndexOf(str, sub) # 0

\* str.replace(pattern, by) with a string pattern: the first occurrence.
ReplaceFirst(str, pattern, by) ==
    LET i == IndexOf(str, pattern)
    IN  IF i = 0 THEN str
        ELSE SubSeq(str, 1, i - 1) \o by \o SubSeq(str, i + Len(pattern), Len(str))

\* The branch of lines 253-266 an expected value takes.
AssertionKindLoose(expectedValue) ==
    CASE StartsWith(expectedValue, UrlPrefix) -> "url"
      [] StartsWith(expectedValue, SubSeq(TitlePrefix, 1, 5)) -> "title"
      [] OTHER -> "none"
AssertionKind(expectedValue) ==
    CASE StartsWith(expectedValue, UrlPrefix) -> "url"
      [] StartsWith(expectedValue, TitlePrefix) -> "title"
      [] OTHER -> "none"

\* The messages of lines 258 and 264, with what is put in their holes, and
\* the message of a rejected driver call.
UrlMismatch(expectedUrl, currentUrl) ==
    [text |-> "Expected URL to contain \"${expectedUrl}\" but got \"${currentUrl}\"",
     expected |-> expectedUrl, actual |-> currentUrl]
TitleMismatch(expectedTitle, actualTitle) ==
    [text |-> "Expected title to contain \"${expectedTitle}\" but got \"${actualTitle}\"",
     expected |-> expectedTitle, actual |-> actualTitle]
TitleRejected == [text |-> "page.title: Target page, context or browser has been closed"]
NoMessage == [text |-> "<undefined>"]

\* performAssertion without element (lines 228-235, 252-267) on a page with
\* this URL and this title, whose title can be read or not: what it threw,
\* and what it read of the page.
AssertNoElement(expectedValue, url, title, titleRead) ==
    CASE AssertionKind(expectedValue) = "url" ->
            LET expectedUrl == ReplaceFirst(expectedValue, UrlPrefix, <<>>)
            IN  [reads |-> {"url"},
                 thrown |-> IF Includes(url, expectedUrl) THEN NoMessage
                            ELSE UrlMismatch(expectedUrl, url)]
      [] AssertionKind(expectedValue) = "title" ->
            LET expectedTitle == ReplaceFirst(expectedValue, TitlePrefix, <<>>)
            IN  [reads |-> {"title"},
                 thrown |-> IF ~titleRead THEN TitleRejected
                            ELSE IF Includes(title, expectedTitle) THEN NoMessage
                            ELSE TitleMismatch(expectedTitle, title)]
      [] OTHER -> [reads |-> {}, thrown |-> NoMessage]

\* The texts looked for, and the URLs and titles of the page.
Needles == UNION {[1..n -> {"a", "b"}] : n \in 0..MaxNeedle}

\* What the expected values begin with.
Prefixes == {UrlPrefix, TitlePrefix, TitleContainsPrefix, <<>>, <<"u", "r", "l">>}

\* executeTestCase on a test case of one assert step without element and
\* with no placeholder: the StepResult of executeStep (lines 120-143) and
\* the status and error of the TestResult (lines 85-88, 101-112).
AssertCase ==
    /\ fnName = "none"
    /\ \E prefix \in Prefixes, needle \in Needles, url \in Needles, title \in Needles,
          titleRead \in BOOLEAN :
          LET expectedValue == ResolveValue(prefix \o needle, <<>>)
              out == AssertNoElement(expectedValue, url, title, titleRead)
              failed == out.thrown # NoMessage
              stepResult == [status |-> IF failed THEN "FAILED" ELSE "PASSED",
                             error |-> out.thrown]
          IN  /\ fnName' = "assert"
              /\ fnIn' = [prefix |-> prefix, needle |-> needle, url |-> url,
                          title |-> title, titleRead |-> titleRead]
              /\ fnOut' = [step |-> stepResult,
                           result |-> [status |-> stepResult.status,
                                       error |-> stepResult.error],
                           reads |-> out.reads]
    /\ UNCHANGED <<dataVars, concVars, engineVars>>
    /\ UNCHANGED <<lifeVars, execVars, utilVars, smartVars, handlerVars>>

\* --------------------------------------------------------- getFailureAnalysis
\* bound of the length of a result set given to getFailureAnalysis
MaxAnalysed == 3

\* The texts extractErrorType looks for (lines 390-393), in its order.
TimeoutText == <<"t", "i", "m", "e", "o", "u", "t">>
ElementNotFoundText == <<"e", "l", "e", "m", "e", "n", "t", " ", "n", "o", "t", " ", "f", "o", "u", "n", "d">>
NavigationText == <<"n", "a", "v", "i", "g", "a", "t", "i", "o", "n">>
NetworkText == <<"n", "e", "t", "w", "o", "r", "k">>

\* extractErrorType (lines 389-395).
ExtractErrorTypeNetworkFirst(errorText) ==
    CASE Includes(errorText, NetworkText) -> "Network Error"
      [] Includes(errorText, TimeoutText) -> "Timeout"
      [] Includes(errorText, ElementNotFoundText) -> "Element Not Found"
      [] Includes(errorText, NavigationText) -> "Navigation Error"
      [] OTHER -> "Other"
ExtractErrorType(errorText) ==
    IF Includes(errorText, TimeoutText) THEN "Timeout"
    ELSE IF Includes(errorText, ElementNotFoundText) THEN "Element Not Found"
    ELSE IF Includes(errorText, NavigationText) THEN "Navigation Error"
    ELSE IF Includes(errorText, NetworkText) THEN "Network Error"
    ELSE "Other"

\* if (result.error) (line 354): error is optional, and '' is falsy.
HasError(result) == "error" \in DOMAIN result /\ result.error # <<>>

\* errorCounts after the forEach of lines 353-358, as Object.entries gives it
\* (line 360): one entry per error type, in the order of their first
\* occurrence.
RECURSIVE CountErrors(_, _)
CountErrors(failed, entries) ==
    IF failed = <<>> THEN entries
    ELSE IF ~HasError(Head(failed)) THEN CountErrors(Tail(failed), entries)
    ELSE LET type == ExtractErrorType(Head(failed).error)
             at == FirstIndex({i \in DOMAIN entries : entries[i].error = type})
         IN  CountErrors(Tail(failed),
                 IF at = 0 THEN Append(entries, [error |-> type, count |-> 1])
                 ELSE [entries EXCEPT ![at].count = @ + 1])

\* .sort(([,a], [,b]) => b - a) (line 361): by descending count, stable.
RECURSIVE InsertByCount(_, _)
InsertByCount(entry, sorted) ==
    IF sorted = <<>> \/ Head(sorted).count < entry.count
    THEN <<entry>> \o sorted
    ELSE <<Head(sorted)>> \o InsertByCount(entry, Tail(sorted))
RECURSIVE SortByCount(_)
SortByCount(entries) ==
    IF entries = <<>> THEN <<>>
    ELSE InsertByCount(entries[Len(entries)],
                       SortByCount(SubSeq(entries, 1, Len(entries) - 1)))

\* analyzeErrorPatterns (lines 350-364).
AnalyzeErrorPatterns(failed) ==
    LET sorted == SortByCount(CountErrors(failed, <<>>))
    IN  SubSeq(sorted, 1, IF Len(sorted) < 10 THEN Len(sorted) ELSE 10)

\* getFailureAnalysis(results) (lines 120-139).
FailureAnalysis(rs) ==
    LET failed == SelectSeq(rs, LAMBDA r : r.status = "FAILED")
    IN  IF Len(failed) = 0
        THEN [hasFailures |-> FALSE]
        ELSE [hasFailures |-> TRUE, totalFailures |-> Len(failed),
              errorPatterns |-> AnalyzeErrorPatterns(failed)]

\* The error messages of the results analysed.
ErrorMessages ==
    { TimeoutText,
      NetworkText \o <<" ">> \o TimeoutText,
      ElementNotFoundText,
      NavigationText \o <<" ">> \o NetworkText,
      NetworkText,
      <<"T">> \o Tail(TimeoutText) }

AnalysedResults ==
    [status : {"FAILED"}, error : ErrorMessages \cup {<<>>}]
        \cup [status : {"FAILED", "PASSED"}]

AnalysedSets == UNION {[1..n -> AnalysedResults] : n \in 0..MaxAnalysed}

\* A getFailureAnalysis call on given results.
GetFailureAnalysisOf ==
    /\ fnName = "none"
    /\ \E rs \in AnalysedSets :
          /\ fnName' = "getFailureAnalysis"
          /\ fnIn' = rs
          /\ fnOut' = FailureAnalysis(rs)
    /\ UNCHANGED <<dataVars, concVars, engineVars>>
    /\ UNCHANGED <<lifeVars, execVars, utilVars, smartVars, handlerVars>>

\* ------------------------------------------------- options.parallel of a suite
\* ExecutionOptions with parallel (types.ts, lines 233-236): absent, or
\* present with enabled and workers.
ParallelOptions ==
    LET plain == [stopOnFailure : BOOLEAN, delayBetweenTests : {0}, maxRetries : {0}]
    IN  plain \cup
        {o @@ [parallel |-> p] :
            o \in plain, p \in {[enabled |-> FALSE, workers |-> 1],
                                [enabled |-> TRUE, workers |-> 2]}}

\* A call of executeTestSuite (lines 311-312) with such options: nothing of
\* lines 311-341 reads options.parallel.
ExecuteTestSuiteParallel ==
    /\ mode = "none"
    /\ \E ids \in SuiteIdLists, o \in ParallelOptions :
          /\ mode' = "suite"
          /\ opts' = o
          /\ suiteIds' = ids
    /\ ci' = 1
    /\ results' = <<>>
    /\ rpc' = "next"
    /\ callOutcome' = "running"
    /\ UNCHANGED <<attempted, caseRaised, delays>>
    /\ UNCHANGED <<callError, tcResult, handlerResults>>
    /\ UNCHANGED caseVars
    /\ UNCHANGED <<lifeVars, utilVars, restVars>>

\* ------------------------------------------------------------ WebCrawler.crawl
\* bound of the number of links of a site
MaxLinks == 2
\* bound of discoverySettings.maxDepth
MaxDepth == 2

\* URLs, as characters: a hostname, then a path.
StartUrl == <<"h", "/", "s">>
UrlA == <<"h", "/", "a">>
UrlB == <<"h", "/", "b">>
UrlC == <<"h", "/", "c">>
AdminUrl == <<"h", "/", "e">>
ForeignUrl == <<"g", "/", "a">>
\* An href `new URL` does not accept.
InvalidUrl == <<"?">>

\* Exclude patterns: a text without regular-expression syntax, and one that
\* is no regular expression (as '*.pdf' of config.ts, line 5).
AdminPattern == <<"/", "e">>
StarPattern == <<"*", "e">>

\* new RegExp(pattern).test(url) (line 192): "raised" for a pattern that is
\* no regular expression; a text without syntax matches where it occurs.
RegExpTest(pattern, url) ==
    IF pattern # <<>> /\ pattern[1] = "*" THEN "raised"
    ELSE IF Includes(url, pattern) THEN "true" ELSE "false"

\* shouldExcludeUrl (lines 190-194): some() tests the patterns in order and
\* stops at the first that matches; new RegExp is reached only when includes
\* is false.
ShouldExcludeUrlNever(url, patterns) == "false"
RECURSIVE ShouldExcludeUrl(_, _)
ShouldExcludeUrl(url, patterns) ==
    IF patterns = <<>> THEN "false"
    ELSE IF Includes(url, Head(patterns)) THEN "true"
    ELSE LET test == RegExpTest(Head(patterns), url)
         IN  IF test = "false" THEN ShouldExcludeUrl(url, Tail(patterns)) ELSE test

\* new URL(href).hostname (lines 198-199); "raised" when new URL throws.
Hostname(href) == IF href = InvalidUrl THEN "raised" ELSE href[1]

\* isInternalLink (lines 196-204).
IsInternalLinkAlways(href, baseUrl) == TRUE
IsInternalLink(href, baseUrl) ==
    /\ Hostname(href) # "raised"
    /\ Hostname(baseUrl) # "raised"
    /\ Hostname(href) = Hostname(baseUrl)

\* The links of the page at url, in document order (lines 129-134).
LinksOf(site, url) == IF url \in DOMAIN site THEN site[url] ELSE <<>>

\* crawlPage (lines 52-103) and its loop over the internal links (lines
\* 92-94). c is what the crawl was called with and finds: [url, maxDepth,
\* patterns, site, failing]; s is [visited, discovered, errors] with the
\* histories loads (the page.goto calls with their depth) and followed (the
\* links crawlPage was called for), and thrown, set when the call raised.
RECURSIVE CrawlPage(_, _, _, _)
RECURSIVE CrawlLinks(_, _, _, _)
CrawlPage(url, depth, c, s) ==
    IF depth > c.maxDepth \/ url \in s.visited THEN s
    ELSE LET skip == ShouldExcludeUrl(url, c.patterns)
         IN  IF skip = "raised" THEN [s EXCEPT !.thrown = TRUE]
             ELSE IF skip = "true" THEN s
             ELSE LET s1 == [s EXCEPT !.visited = @ \cup {url},
                                      !.loads = Append(@, [url |-> url, depth |-> depth])]
                  IN  IF url \in c.failing
                      THEN [s1 EXCEPT !.errors = Append(@, url)]
                      ELSE LET s2 == [s1 EXCEPT !.discovered = Append(@, url)]
                               internalLinks ==
                                   SelectSeq(LinksOf(c.site, url),
                                             LAMBDA href : IsInternalLink(href, c.url))
                               s3 == CrawlLinks(internalLinks, depth + 1, c, s2)
                           IN  IF s3.thrown
                               THEN [s3 EXCEPT !.thrown = FALSE,
                                               !.errors = Append(@, url)]
                               ELSE s3
CrawlLinks(links, depth, c, s) ==
    IF links = <<>> \/ s.thrown THEN s
    ELSE CrawlLinks(Tail(links), depth, c,
                    CrawlPage(Head(links), depth, c,
                              [s EXCEPT !.followed = Append(@, Head(links))]))

\* crawl (lines 9-43): the CrawlResult, or the error of the first crawlPage.
CrawlOf(c) ==
    LET s == CrawlPage(c.url, 0, c,
                       [visited |-> {}, discovered |-> <<>>, errors |-> <<>>,
                        loads |-> <<>>, followed |-> <<>>, thrown |-> FALSE])
    IN  IF s.thrown
        THEN [outcome |-> "raised", loads |-> s.loads, followed |-> s.followed]
        ELSE [outcome |-> "returned", pages |-> s.discovered,
              totalPagesFound |-> Len(s.discovered), errors |-> s.errors,
              loads |-> s.loads, followed |-> s.followed]

\* The sites crawled: pages of the start URL's host with at most MaxLinks
\* links in all, to each other, to an excluded URL, to another host and
\* to an href that is no URL.
SitePages == {StartUrl, UrlA, UrlB}
SiteHrefs == SitePages \cup {AdminUrl, ForeignUrl, InvalidUrl}
\* The links of a site in the order they are found in: <<page, href>>.
LinkSets == UNION {[1..k -> SitePages \X SiteHrefs] : k \in 0..MaxLinks}
SiteOf(links) ==
    [p \in SitePages |->
        LET own == SelectSeq(links, LAMBDA l : l[1] = p)
        IN  [i \in DOMAIN own |-> own[i][2]]]
PatternLists == {<<>>, <<AdminPattern>>, <<AdminPattern, StarPattern>>}

\* A crawl call.
Crawl ==
    /\ fnName = "none"
    /\ \E links \in LinkSets, depth \in 0..MaxDepth, patterns \in PatternLists,
          failing \in {{}, {UrlA}} :
          LET c == [url |-> StartUrl, maxDepth |-> depth, patterns |-> patterns,
                    site |-> SiteOf(links), failing |-> failing]
          IN  /\ fnName' = "crawl"
              /\ fnIn' = c
              /\ fnOut' = CrawlOf(c)
    /\ UNCHANGED <<dataVars, concVars, engineVars>>
    /\ UNCHANGED <<lifeVars, execVars, utilVars, smartVars, handlerVars>>

\* bound of the number of links of a site of one host
MaxHostLinks == 4

\* The sites of one host: four pages with at most MaxHostLinks links in all,
\* to each other and to an excluded URL; every page load succeeds.
HostPages == {StartUrl, UrlA, UrlB, UrlC}
HostLinkSets ==
    UNION {[1..k -> HostPages \X (HostPages \cup {AdminUrl})] : k \in 0..MaxHostLinks}
HostSiteOf(links) ==
    [p \in HostPages |->
        LET own == SelectSeq(links, LAMBDA l : l[1] = p)
        IN  [i \in DOMAIN own |-> own[i][2]]]

\* A crawl call on such a site.
CrawlHost ==
    /\ fnName = "none"
    /\ \E links \in HostLinkSets, depth \in 0..MaxDepth :
          LET c == [url |-> StartUrl, maxDepth |-> depth, patterns |-> <<AdminPattern>>,
                    site |-> HostSiteOf(links), failing |-> {}]
          IN  /\ fnName' = "crawlHost"
              /\ fnIn' = c
              /\ fnOut' = CrawlOf(c)
    /\ UNCHANGED <<dataVars, concVars, engineVars>>
    /\ UNCHANGED <<lifeVars, execVars, utilVars, smartVars, handlerVars>>

\* ------------------------------------------ overlapping executeTestCase calls
\* bound of the number of steps of a test case of an overlapping call
MaxConcSteps == 2

\* The callers of executeTestCase on the one executor, which is initialised:
\* this.page is a page, and it is the same page for every call (line 9).
Callers == {1, 2}
NotCalled == [pc |-> "none", steps |-> 0, si |-> 0, status |-> "PASSED", overlaps |-> FALSE]

Awaiting(c) == xCalls[c].pc = "action"

\* executeTestCase is called (line 69). Nothing of lines 69-115 looks whether
\* another call is running. Up to the first await the call runs on: the
\* check of line 70, lines 74-77, and for the first step executeStep and
\* performAction up to the driver call it awaits (lines 82, 126, 156-221).
ConcurrentExecuteTestCase(c) ==
    /\ xCalls[c].pc = "none"
    /\ \E n \in 0..MaxConcSteps :
          LET overlaps == \E d \in Callers \ {c} : Awaiting(d)
          IN  IF n = 0
              THEN /\ xCalls' = [xCalls EXCEPT ![c] =
                          [pc |-> "returned", steps |-> 0, si |-> 0,
                           status |-> "PASSED", overlaps |-> overlaps]]
                   /\ UNCHANGED xLog
              ELSE /\ xCalls' = [xCalls EXCEPT ![c] =
                          [pc |-> "action", steps |-> n, si |-> 1,
                           status |-> "PASSED", overlaps |-> overlaps]]
                   /\ xLog' = Append(xLog, [call |-> c, step |-> 1, event |-> "invoked"])
    /\ UNCHANGED <<lifeVars, execVars, utilVars, smartVars, handlerVars, pureVars, dataVars,
                   engineVars>>

\* The driver call a caller awaits settles (line 126): the StepResult, the
\* test of line 85, and either the driver call of the next step or the end of
\* the call (lines 96-114).
ConcurrentStepSettles(c) ==
    /\ Awaiting(c)
    /\ \E ok \in BOOLEAN :
          LET call == xCalls[c]
              settled == Append(xLog, [call |-> c, step |-> call.si, event |-> "settled"])
          IN  IF ok /\ call.si < call.steps
              THEN /\ xCalls' = [xCalls EXCEPT ![c].si = call.si + 1]
                   /\ xLog' = Append(settled,
                                     [call |-> c, step |-> call.si + 1, event |-> "invoked"])
              ELSE /\ xCalls' = [xCalls EXCEPT ![c].pc = "returned",
                                               ![c].status = IF ok THEN "PASSED" ELSE "FAILED"]
                   /\ xLog' = settled
    /\ UNCHANGED <<lifeVars, execVars, utilVars, smartVars, handlerVars, pureVars, dataVars,
                   engineVars>>

\* ------------------------------------------- AutomationEngine.executeTestSuite
NotEnded == [ended |-> FALSE, raised |-> FALSE, value |-> <<>>]

\* results.forEach(result => this.resultHandler.processResult(result))
\* (index.ts, line 152) from the state h of the handler, [results, log,
\* calls, raised]: every way it can go. Each processResult pushes and then
\* invokes the listeners registered for the result (test-result-handler.ts,
\* lines 20-30); the throw of a listener ends the forEach.
RECURSIVE ForEachProcessResult(_, _)
ForEachProcessResult(rs, h) ==
    IF rs = <<>> THEN {h}
    ELSE LET r        == Head(rs)
             pushed   == Push(h.results, r)
             complete == IF "onTestComplete" \in hEvents
                         THEN <<Invocation("onTestComplete", r, r, pushed)>> ELSE <<>>
             failing  == r.status = "FAILED" /\ "onTestFailure" \in hEvents
             failure  == IF failing
                         THEN <<Invocation("onTestFailure", r, FailureArg(r), pushed)>>
                         ELSE <<>>
             after(log, raised) ==
                 [results |-> pushed, log |-> h.log \o log,
                  calls |-> h.calls + 1, raised |-> raised]
         IN  (IF complete # <<>> THEN {after(complete, TRUE)} ELSE {})
                 \cup (IF failing THEN {after(complete \o failure, TRUE)} ELSE {})
                 \cup ForEachProcessResult(Tail(rs), after(complete \o failure, FALSE))

\* executeTestSuite of the engine (index.ts, lines 150-154), after the
\* executor's executeTestSuite returned: the forEach of line 152 and, when no
\* listener threw, the return of the executor's list (line 153).
ExecuteTestSuiteProcess ==
    /\ mode = "suite" /\ callOutcome = "returned"
    /\ ~eOut.ended
    /\ \E h \in ForEachProcessResult(results,
                    [results |-> hResults, log |-> <<>>, calls |-> 0, raised |-> FALSE]) :
          /\ hResults' = h.results
          /\ hLog' = h.log
          /\ hCalls' = hCalls + h.calls
          /\ hSince' = hSince \o SubSeq(results, 1, h.calls)
          /\ hIn' = IF h.calls = 0 THEN hIn ELSE results[h.calls]
          /\ hOut' = IF h.calls = 0 THEN hOut
                     ELSE Ended(h.raised, IF h.raised THEN results[h.calls]
                                          ELSE ProcessResult(results[h.calls]))
          /\ eOut' = [ended |-> TRUE, raised |-> h.raised,
                      value |-> IF h.raised THEN <<>> ELSE results]
    /\ hReport' = NoReport
    /\ UNCHANGED <<now, hEvents, hStart>>
    /\ UNCHANGED <<lifeVars, execVars, utilVars, smartVars, pureVars, dataVars, concVars>>

\* ------------------------------------------------ BrowserUtils.waitForElement

\* DEFAULT defaultWaitTimeout of the constructor (line 9)
DefaultWaitTimeout == 30000

\* ElementOptions given by a caller: waitForVisible and timeout are optional
\* properties; an absent one reads as undefined.
ElementOptionsGiven ==
    {<<>>} \cup [waitForVisible : BOOLEAN] \cup [timeout : {0, 5000}]
           \cup [waitForVisible : BOOLEAN, timeout : {0, 5000}]

\* The UtilsConfig handed to the constructor: retryConfig, and optionally
\* defaultWaitTimeout.
UtilsConfigsGiven ==
    [retryConfig : RetryConfigs] \cup
    [retryConfig : RetryConfigs, defaultWaitTimeout : {10000}]

\* this.config of the constructor (lines 8-21): the defaults overridden by
\* the properties of the given config.
ConfigOf(given) ==
    [defaultWaitTimeout |->
        IF "defaultWaitTimeout" \in DOMAIN given
        THEN given.defaultWaitTimeout ELSE DefaultWaitTimeout,
     retryConfig |-> given.retryConfig]

\* options.timeout || this.config.defaultWaitTimeout (line 32): an absent
\* timeout and a timeout of 0 are falsy.
WaitTimeout(options, config) ==
    IF "timeout" \in DOMAIN options /\ options["timeout"] # 0
    THEN options["timeout"]
    ELSE config.defaultWaitTimeout

\* options.waitForVisible ? 'visible' : 'attached' (line 37)
WaitState(options) ==
    IF "waitForVisible" \in DOMAIN options /\ options["waitForVisible"]
    THEN "visible" ELSE "attached"

\* The waitOptions of lines 36-42; timeout is a number here, so line 40
\* always sets it.
WaitOptions(options, config) ==
    [state |-> WaitState(options), timeout |-> WaitTimeout(options, config)]

\* retryOperation (lines 414-440) around locator.waitFor(waitOptions): the
\* element reaches the state during wait number reachedAt (0: never).  The
\* result is the outcome and the sequence of waitFor and setTimeout calls.
RECURSIVE RetryWaitFor(_, _, _, _, _)
RetryWaitFor(a, cfg, waitOptions, reachedAt, made) ==
    IF ~LoopContinues(a, cfg)
    THEN [outcome |-> "raised", calls |-> made]
    ELSE LET waited == Append(made, [call |-> "waitFor", state |-> waitOptions.state,
                                      ms |-> waitOptions.timeout])
         IN  IF reachedAt = a + 1
             THEN [outcome |-> "returned", calls |-> waited]
             ELSE IF LastAttempt(a, cfg)
             THEN [outcome |-> "raised", calls |-> waited]
             ELSE RetryWaitFor(a + 1, cfg, waitOptions, reachedAt,
                      Append(waited, [call |-> "setTimeout", state |-> "none",
                                      ms |-> BackoffDelay(cfg, a)]))

\* waitForElement(page, selector, options) (lines 27-46)
WaitForElementOf(in) ==
    LET config == ConfigOf(in.config)
    IN  RetryWaitFor(0, config.retryConfig, WaitOptions(in.options, config),
                     in.reachedAt, <<>>)

WaitForElementCall ==
    /\ fnName = "none"
    /\ \E options \in ElementOptionsGiven, given \in UtilsConfigsGiven,
          reachedAt \in 0..(MaxRetries + 1) :
          LET in == [options |-> options, config |-> given, reachedAt |-> reachedAt]
          IN  /\ fnName' = "waitForElement"
              /\ fnIn' = in
              /\ fnOut' = WaitForElementOf(in)
    /\ UNCHANGED <<dataVars, concVars, engineVars>>
    /\ UNCHANGED <<lifeVars, execVars, utilVars, smartVars, handlerVars>>

\* ------------------------------------------------------------ specification
\* A new PlaywrightExecutor (lines 7-14), and no call made yet.
Init ==
    /\ cfgBrowser \in ConfigBrowsers
    /\ browser = Null
    /\ context = Null
    /\ page = Null
    /\ open = {}
    /\ opened = {}
    /\ nLaunch = 0
    /\ lpc = "idle"
    /\ initOutcome = "none"
    /\ closeLog = <<>>
    /\ closeRaised = FALSE
    /\ atStart = <<Null, Null, Null>>
    /\ cleanupOutcome = "none"
    /\ ck = 1
    /\ prevClean = FALSE
    /\ afterClean = FALSE
    /\ lastCall = "none"
    /\ mode = "none"
    /\ rpc = "idle"
    /\ opts = [stopOnFailure |-> FALSE, delayBetweenTests |-> 0, maxRetries |-> 0]
    /\ tc = [id |-> "tc1", steps |-> <<>>]
    /\ si = 1
    /\ stepResults = <<>>
    /\ status = "PASSED"
    /\ error = NoMsg
    /\ artifacts = NoArtifacts
    /\ captured = FALSE
    /\ raisedBy = <<>>
    /\ invoked = <<>>
    /\ interactions = <<>>
    /\ escaped = FALSE
    /\ callOutcome = "none"
    /\ callError = Ok
    /\ tcResult = [testCaseId |-> "<none>"]
    /\ handlerResults = <<>>
    /\ suiteIds = <<>>
    /\ ci = 1
    /\ results = <<>>
    /\ attempted = <<>>
    /\ caseRaised = <<>>
    /\ delays = <<>>
    /\ rcfg = [maxRetries |-> 0, delay |-> 100, backoff |-> "linear"]
    /\ rpos = "idle"
    /\ attempt = 0
    /\ lastError = Undefined
    /\ invocations = 0
    /\ calls = <<>>
    /\ waits = <<>>
    /\ retValue = "<none>"
    /\ retError = Undefined
    /\ sop = "none"
    /\ sphase = "wait"
    /\ strace = <<>>
    /\ fillText = ""
    /\ elValue = ""
    /\ selWanted = <<>>
    /\ selOptions = <<>>
    /\ selected = 0
    /\ now = 0
    /\ hEvents = {}
    /\ hResults = <<>>
    /\ hStart = 0
    /\ hSince = <<>>
    /\ hCalls = 0
    /\ hIn = NoCall
    /\ hOut = NoCall
    /\ hLog = <<>>
    /\ hReport = [kind |-> "none"]
    /\ fnName = "none"
    /\ fnIn = <<>>
    /\ fnOut = <<>>
    /\ dTc = [id |-> "<none>"]
    /\ dData = <<>>
    /\ dSi = 0
    /\ dLog = <<>>
    /\ xCalls = [c \in Callers |-> NotCalled]
    /\ xLog = <<>>
    /\ eOut = NotEnded

vars == <<lifeVars, execVars, utilVars, restVars>>

Initialize ==
    \/ InitializeStart
    \/ InitializeLaunched
    \/ InitializeContext
    \/ InitializePage

Cleanup ==
    \/ CleanupStart
    \/ CleanupClose
    \/ CleanupRelease

\* The lifecycle of one executor: initialize() and cleanup() calls one after
\* the other, and browsers that crash.
NextLifecycle ==
    \/ Initialize
    \/ Cleanup
    \/ Crash

SpecLifecycle == Init /\ [][NextLifecycle]_vars

\* One executeTestCase call on an executor after any initialize() calls; the
\* browser of the executor's session can crash at any time during the call
\* (a crash before the call is a crash at its very beginning).
Next ==
    \/ (mode = "none" /\ Initialize)
    \/ (callOutcome = "running" /\ page # Null /\ Crash /\ Res("browser", page) \notin open')
    \/ ExecuteTestCase
    \/ RunStep
    \/ FinishCase

Spec == Init /\ [][Next]_vars

\* One executeTestSuite call on such an executor.
NextSuite ==
    \/ (mode = "none" /\ Initialize)
    \/ (callOutcome = "running" /\ page # Null /\ Crash /\ Res("browser", page) \notin open')
    \/ ExecuteTestSuite
    \/ SuiteNext
    \/ RunStep
    \/ FinishCase
    \/ SuiteDelay

SpecSuite == Init /\ [][NextSuite]_vars

\* One retryOperation call.
NextRetry ==
    \/ RetryOperation
    \/ OperationSettles
    \/ RetrySleepOver

SpecRetry == Init /\ [][NextRetry]_vars

\* One smartClick call.
NextClick ==
    \/ SmartClick
    \/ WaitForElement
    \/ SmartSleepOver
    \/ ClickPlain
    \/ ClickScroll
    \/ ClickForced
    \/ JsClick

SpecClick == Init /\ [][NextClick]_vars

\* One smartFill call.
NextFill ==
    \/ SmartFill
    \/ WaitForElement
    \/ SmartSleepOver
    \/ FillWrite
    \/ FillValidate

SpecFill == Init /\ [][NextFill]_vars

\* One smartSelect call.
NextSelect ==
    \/ SmartSelect
    \/ WaitForElement
    \/ SmartSleepOver
    \/ SelectByValue
    \/ SelectHandle
    \/ SelectByLabel

SpecSelect == Init /\ [][NextSelect]_vars

\* The calls on one TestResultHandler, one after the other.
NextHandler ==
    \/ Tick
    \/ SetEventHandlers
    \/ ProcessResultCall
    \/ ClearResults
    \/ GenerateSummary
    \/ GetFailureAnalysis
    \/ GetPerformanceSummary
    \/ ExportResults

SpecHandler == Init /\ [][NextHandler]_vars

\* One executeTest call on an AutomationEngine with listeners, after any
\* initialize() calls.
NextEngine ==
    \/ (mode = "none" /\ Initialize)
    \/ (mode = "none" /\ SetEventHandlers)
    \/ (callOutcome = "running" /\ page # Null /\ Crash /\ Res("browser", page) \notin open')
    \/ ExecuteTestCase
    \/ RunStep
    \/ FinishCase
    \/ ExecuteTestProcess

SpecEngine == Init /\ [][NextEngine]_vars

\* generateSummary calls, with and without an argument, between the
\* processResult and clearResults calls on a TestResultHandler.
NextSummary ==
    \/ ProcessResultCall
    \/ ClearResults
    \/ GenerateSummaryOf

SpecSummary == Init /\ [][NextSummary]_vars

\* exportToJunit calls.
NextJunit == ExportToJunit

SpecJunit == Init /\ [][NextJunit]_vars

\* resolveValue calls.
NextResolve == ResolveValueCall

SpecResolve == Init /\ [][NextResolve]_vars

\* One executeTestCase call on a test case with test data.
NextData ==
    \/ ExecuteDataCase
    \/ RunDataStep

SpecData == Init /\ [][NextData]_vars

\* executeTestCase calls on test cases of one assert step without element.
NextAssert == AssertCase

SpecAssert == Init /\ [][NextAssert]_vars

\* getFailureAnalysis calls on given results.
NextAnalysis == GetFailureAnalysisOf

SpecAnalysis == Init /\ [][NextAnalysis]_vars

\* One executeTestSuite call with options.parallel absent or present.
NextParallel ==
    \/ (mode = "none" /\ Initialize)
    \/ ExecuteTestSuiteParallel
    \/ SuiteNext
    \/ RunStep
    \/ FinishCase
    \/ SuiteDelay

SpecParallel == Init /\ [][NextParallel]_vars

\* WebCrawler.crawl calls.
NextCrawl == Crawl

SpecCrawl == Init /\ [][NextCrawl]_vars

\* WebCrawler.crawl calls on the sites of one host.
NextCrawlHost == CrawlHost

SpecCrawlHost == Init /\ [][NextCrawlHost]_vars

\* One executeTestCase call on an executor after one initialize() call, and
\* cleanup() calls while it is running.
NextCancel ==
    \/ (mode = "none" /\ lastCall = "none" /\ Initialize)
    \/ ExecuteTestCase
    \/ RunStep
    \/ FinishCase
    \/ (callOutcome = "running" /\ Cleanup)

SpecCancel == Init /\ [][NextCancel]_vars

\* executeTestCase calls of two callers on one initialised executor.
NextConcurrent ==
    \/ \E c \in Callers : ConcurrentExecuteTestCase(c)
    \/ \E c \in Callers : ConcurrentStepSettles(c)

SpecConcurrent == Init /\ [][NextConcurrent]_vars

\* One executeTest or executeTestSuite call on an AutomationEngine
\* constructed with listeners, after one initialize() call.
NextEngineSuite ==
    \/ (mode = "none" /\ lastCall = "none" /\ lpc = "idle" /\ SetEventHandlers)
    \/ (mode = "none" /\ lastCall = "none" /\ Initialize)
    \/ ExecuteTestCase
    \/ ExecuteTestSuiteParallel
    \/ SuiteNext
    \/ RunStep
    \/ FinishCase
    \/ SuiteDelay
    \/ ExecuteTestProcess
    \/ ExecuteTestSuiteProcess

SpecEngineSuite == Init /\ [][NextEngineSuite]_vars

\* BrowserUtils.waitForElement calls.
NextWaitFor == WaitForElementCall

SpecWaitFor == Init /\ [][NextWaitFor]_vars

\* ------------------------------------------------------------------ claims
\* The step numbers of the first k declared steps of tc, in order.
DeclaredPrefix(k) == [i \in 1..k |-> tc.steps[i].step]

StepNumbers(srs) == [i \in 1..Len(srs) |-> srs[i].step]

\* Step k is the first step of the running case whose action failed.
FirstFailure(k) ==
    /\ k \in 1..Len(raisedBy)
    /\ raisedBy[k].threw
    /\ \A j \in 1..(k - 1) : ~raisedBy[j].threw

Returned == mode = "case" /\ callOutcome = "returned"

\* C1: in executeTestCase on an initialized executor, when step k is the first
\* declared step whose action fails, stepResults has exactly k entries with the
\* step numbers of the first k declared steps in order, entries 1..k-1 PASSED
\* and entry k FAILED, performAction is never invoked for a step after k, and
\* the returned result has these k entries and status FAILED.
C1_FailFast ==
    \A k \in 1..Len(raisedBy) :
        FirstFailure(k) =>
            /\ Len(stepResults) = k
            /\ StepNumbers(stepResults) = DeclaredPrefix(k)
            /\ \A i \in 1..(k - 1) : stepResults[i].status = "PASSED"
            /\ stepResults[k].status = "FAILED"
            /\ invoked = DeclaredPrefix(k)
            /\ status = "FAILED"
            /\ Returned =>
                  /\ tcResult.stepResults = stepResults
                  /\ tcResult.status = "FAILED"

\* C1's case: a returned call whose first declared step failed, with a later
\* declared step that was never run.
C1_Witness ==
    /\ Returned
    /\ Len(tc.steps) >= 2
    /\ FirstFailure(1)
    /\ Len(tcResult.stepResults) = 1

\* C2: a TestResult returned by executeTestCase is FAILED iff some StepResult
\* is FAILED or an error escaped the step loop, PASSED iff every declared step
\* was executed and every StepResult is PASSED, in declared order, and never
\* SKIPPED or FLAKY.
C2_StatusIff ==
    Returned =>
        LET srs == tcResult.stepResults
        IN  /\ tcResult.status = "FAILED"
                 <=> ((\E i \in 1..Len(srs) : srs[i].status = "FAILED") \/ escaped)
            /\ tcResult.status = "PASSED"
                 <=> /\ Len(srs) = Len(tc.steps)
                     /\ StepNumbers(srs) = DeclaredPrefix(Len(tc.steps))
                     /\ \A i \in 1..Len(srs) : srs[i].status = "PASSED"
            /\ tcResult.status \notin {"SKIPPED", "FLAKY"}

\* C2's case: a returned FAILED result whose last of two StepResults is FAILED.
C2_Witness ==
    /\ Returned
    /\ tcResult.status = "FAILED"
    /\ Len(tcResult.stepResults) = 2
    /\ tcResult.stepResults[1].status = "PASSED"
    /\ tcResult.stepResults[2].status = "FAILED"

\* The call has passed the check of line 70 and has not ended.
Running == mode = "case" /\ callOutcome = "running"

InSuite == mode = "suite"

\* C4: in executeTestSuite with stopOnFailure set, no case is attempted after
\* a case whose recorded result is FAILED, whether executeTestCase returned
\* or raised it: a FAILED result is the last one, and the last case attempted.
C4_StopOnFailure ==
    (InSuite /\ opts.stopOnFailure) =>
        \A i \in 1..Len(results) :
            results[i].status = "FAILED" =>
                /\ i = Len(results)
                /\ Len(attempted) = i

\* C5: executeTestSuite never raises; every attempted case has exactly one
\* result, in suite order and with the case's id; a case whose executeTestCase
\* raised is recorded FAILED with duration 0 and the exception's message; and
\* with stopOnFailure unset a returned suite has a result for every case.
C5_SuiteNeverRaises ==
    InSuite =>
        /\ callOutcome # "raised"
        /\ Len(results) \in {Len(attempted), Len(attempted) - 1}
        /\ rpc \in {"next", "delay", "done"} => Len(results) = Len(attempted)
        /\ \A i \in 1..Len(results) :
              /\ results[i].testCaseId = suiteIds[i]
              /\ attempted[i] = suiteIds[i]
              /\ caseRaised[i] =>
                    /\ results[i].status = "FAILED"
                    /\ results[i].duration = 0
                    /\ results[i].error = NotInitialized.message
        /\ (callOutcome = "returned" /\ ~opts.stopOnFailure) =>
              Len(results) = Len(suiteIds)

\* cleanup() has returned and no initialize() has begun since.
CleanedUp == lpc = "idle" /\ lastCall = "cleanup"

\* C6: after cleanup() returns, every resource the executor had opened is
\* closed and the executor holds no handle, also after a partial initialize()
\* and also when a close operation raised.
C6_CleanupReleasesAll ==
    CleanedUp =>
        /\ opened \cap open = {}
        /\ page = Null /\ context = Null /\ browser = Null

Rank(kind) == CASE kind = "page" -> 1 [] kind = "context" -> 2 [] kind = "browser" -> 3

InCleanup == lpc \in {"cl_check", "cl_release"}

\* The handles cleanup() found set when it began, as page, context, browser.
SetAtStart ==
    LET kinds == <<"page", "context", "browser">>
    IN  SelectSeq([i \in 1..3 |-> Res(kinds[i], atStart[i])], LAMBDA r : r.s # Null)

\* C7: cleanup() never propagates an error and always completes; it closes
\* handles in the order page, context, browser (all that were set, when no
\* close raises); a cleanup() right after one in which no close raised
\* performs no close and leaves the handles unchanged; and on a
\* never-initialized executor cleanup() performs no close.
C7_CleanupOrderIdempotent ==
    /\ cleanupOutcome # "raised"
    /\ InCleanup => ENABLED (CleanupClose \/ CleanupRelease)
    /\ \A i, j \in 1..Len(closeLog) :
          i < j => Rank(closeLog[i].kind) < Rank(closeLog[j].kind)
    /\ \A i \in 1..Len(closeLog) : closeLog[i] = SetAtStart[i]
    /\ (CleanedUp /\ ~closeRaised) => closeLog = SetAtStart
    /\ (afterClean /\ (InCleanup \/ (CleanedUp /\ prevClean))) =>
          /\ closeLog = <<>>
          /\ <<page, context, browser>> = atStart
    /\ initOutcome = "none" => closeLog = <<>>

\* C7's case: a cleanup() that closed page, context and browser.
C7_Witness ==
    /\ CleanedUp
    /\ ~closeRaised
    /\ Len(closeLog) = 3
    /\ <<page, context, browser>> = <<Null, Null, Null>>

Settled == rpos \in {"returned", "raised"}

\* C8: retryOperation invokes the operation at most maxRetries+1 times, makes
\* no attempt after a success and returns that attempt's value; it raises only
\* after maxRetries+1 failed attempts, and then the error of the last one;
\* with maxRetries = 0 the operation is invoked exactly once.
C8_RetryAttempts ==
    /\ invocations <= rcfg.maxRetries + 1
    /\ Len(calls) \in {invocations, invocations - 1}
    /\ \A i \in 1..Len(calls) : calls[i].ok => i = Len(calls)
    /\ rpos = "returned" =>
          /\ Len(calls) = invocations
          /\ calls[Len(calls)].ok
          /\ retValue = calls[Len(calls)].value
    /\ rpos = "raised" =>
          /\ invocations = rcfg.maxRetries + 1
          /\ Len(calls) = invocations
          /\ \A i \in 1..Len(calls) : ~calls[i].ok
          /\ retError = calls[Len(calls)].value
    /\ (Settled /\ rcfg.maxRetries = 0) => invocations = 1

\* C8's case: a call that raised after three failed attempts whose errors differ.
C8_Witness ==
    /\ rpos = "raised"
    /\ rcfg.maxRetries = 2
    /\ invocations = 3
    /\ calls[1].value # calls[3].value

\* C9: after failed attempt i (0-indexed), i < maxRetries, retryOperation waits
\* delay (linear) or delay*2^i (exponential); nothing is waited after the last
\* failed attempt or after a success; an operation that fails maxRetries times
\* and then succeeds has waited delay*(2^maxRetries - 1), or delay*maxRetries.
C9_BackoffDelays ==
    /\ \A i \in 1..Len(waits) :
          /\ ~calls[i].ok
          /\ i - 1 < rcfg.maxRetries
          /\ waits[i] = IF rcfg.backoff = "exponential"
                        THEN rcfg.delay * 2^(i - 1) ELSE rcfg.delay
    /\ Len(waits) = Cardinality({i \in 1..Len(calls) :
                                    ~calls[i].ok /\ i - 1 < rcfg.maxRetries})
    /\ (rpos = "returned" /\ Len(calls) = rcfg.maxRetries + 1) =>
          Sum(waits) = IF rcfg.backoff = "exponential"
                       THEN rcfg.delay * (2^rcfg.maxRetries - 1)
                       ELSE rcfg.delay * rcfg.maxRetries

\* C9's case: exponential backoff, two failures, then a success.
C9_Witness ==
    /\ rpos = "returned"
    /\ rcfg.backoff = "exponential"
    /\ rcfg.maxRetries = 2
    /\ waits = <<rcfg.delay, 2 * rcfg.delay>>

\* DEFAULT_UTILS_CONFIG.retryConfig.maxRetries
DefaultMaxRetries == 3

\* C10: a step is recorded FAILED because of its driver interaction only after
\* the interaction was attempted maxRetries+1 times.
C10_InteractionsRetried ==
    \A i \in 1..Len(stepResults) :
        (stepResults[i].status = "FAILED" /\ interactions[i] > 0) =>
            interactions[i] = DefaultMaxRetries + 1

\* How often the suite has called executeTestCase for the case with this id.
Attempts(id) == Cardinality({j \in 1..Len(attempted) : attempted[j] = id})

\* C11: with ExecutionOptions.maxRetries = n > 0, a FAILED result is recorded
\* for a case only after the case was executed n + 1 times.
C11_FailedCaseRetried ==
    (InSuite /\ opts.maxRetries > 0) =>
        \A i \in 1..Len(results) :
            results[i].status = "FAILED" =>
                Attempts(results[i].testCaseId) = opts.maxRetries + 1

\* C12: a FAILED TestResult returned by executeTestCase has an error field,
\* equal to the error of its FAILED StepResult, which is the message of what
\* that step's action raised.
C12_FailedResultCarriesError ==
    (Returned /\ tcResult.status = "FAILED") =>
        LET k == Len(tcResult.stepResults)
        IN  /\ tcResult.error # NoMsg
            /\ tcResult.error = tcResult.stepResults[k].error
            /\ raisedBy[k].threw
            /\ tcResult.error = raisedBy[k].message

CaptureOnSuccessSet == "captureOnSuccess" \in DOMAIN opts /\ opts.captureOnSuccess

\* C13: executeTestCase attempts an artifact capture iff the case is FAILED or
\* captureOnSuccess is set, and only with a page; whatever the capture does,
\* the result has the status, stepResults and error of the step loop, and the
\* call does not raise.
C13_CaptureIffRequested ==
    /\ Returned =>
          /\ captured <=> (tcResult.status = "FAILED" \/ CaptureOnSuccessSet)
          /\ captured => page # Null
          /\ tcResult.status = status
          /\ tcResult.stepResults = stepResults
          /\ tcResult.error = ErrField(error)
    /\ (mode = "case" /\ callOutcome = "raised") => ~captured

\* The place of a driver call in an iteration of smartClick's operation.
StrategyRank(call) ==
    CASE call = "click" -> 1 [] call = "scroll" -> 2 [] call = "pause" -> 3
      [] call = "force" -> 4 [] call = "js" -> 5

ClickStrategies == {"click", "force", "js"}

\* Driver calls i and j of strace belong to the same iteration of the
\* operation of the second retryOperation call.
SameIteration(i, j) ==
    /\ strace[i].phase = "op" /\ strace[j].phase = "op"
    /\ strace[i].att = strace[j].att

\* Before call j, the same iteration made this call, and it failed.
FailedEarlier(j, call) ==
    \E i \in 1..(j - 1) :
        SameIteration(i, j) /\ strace[i].call = call /\ ~strace[i].ok

\* Every iteration 0..maxRetries of the given retryOperation call made this
\* driver call, and it failed.
Exhausted(phase, call) ==
    \A a \in 0..rcfg.maxRetries :
        \E i \in 1..Len(strace) :
            /\ strace[i].phase = phase /\ strace[i].att = a
            /\ strace[i].call = call /\ ~strace[i].ok

\* In each iteration: plain click, then forced click after the scroll, then
\* DOM-level click, each at most once, a later one only after the earlier
\* ones failed; a strategy that succeeds ends the iteration and the call.
ClickStrategiesInOrder ==
    /\ \A i, j \in 1..Len(strace) :
          (i < j /\ SameIteration(i, j)) =>
              StrategyRank(strace[i].call) < StrategyRank(strace[j].call)
    /\ \A j \in 1..Len(strace) :
          /\ (strace[j].phase = "op" /\ strace[j].call = "force") =>
                /\ FailedEarlier(j, "click")
                /\ strace[j - 2].call = "scroll" /\ strace[j - 2].ok
          /\ (strace[j].phase = "op" /\ strace[j].call = "js") =>
                FailedEarlier(j, "click") /\ FailedEarlier(j, "force")
          /\ (strace[j].phase = "op" /\ strace[j].call \in ClickStrategies /\ strace[j].ok) =>
                j = Len(strace) /\ rpos = "returned"
    /\ rpos = "returned" =>
          strace[Len(strace)].call \in ClickStrategies /\ strace[Len(strace)].ok

\* C14, as stated: the strategies in order, and smartClick raises only after
\* maxRetries+1 iterations of the click strategies have all failed.
C14_RaisesOnlyAfterClicks ==
    sop = "click" =>
        /\ ClickStrategiesInOrder
        /\ rpos = "raised" => Exhausted("op", "click")

\* C14, amended: the strategies in order, and smartClick raises only after
\* maxRetries+1 iterations have all failed, of the wait for the element or of
\* the click strategies.
C14_SmartClick ==
    sop = "click" =>
        /\ ClickStrategiesInOrder
        /\ rpos = "raised" =>
              \/ Exhausted("op", "click")
              \/ Exhausted("wait", "waitFor") /\ \A i \in 1..Len(strace) : strace[i].phase = "wait"

\* C14's case: smartClick raised after two iterations in which all three
\* strategies failed.
C14_Witness ==
    /\ sop = "click" /\ rpos = "raised"
    /\ rcfg.maxRetries = 1
    /\ Exhausted("op", "click") /\ Exhausted("op", "force") /\ Exhausted("op", "js")

\* Some option can be selected for what is wanted: by value, or by label.
Selectable ==
    \E i \in 1..Len(selOptions) :
        selOptions[i].value = selWanted \/ Trim(selOptions[i].text) = selWanted

\* C15: smartSelect returns only if it selected an option, one with the wanted
\* value or one whose trimmed text is the wanted label; when there is no such
\* option it does not return normally, and what it raises after a failed
\* search by label is the option-not-found error.
C15_SelectsOrRaises ==
    sop = "select" =>
        /\ rpos = "returned" =>
              /\ selected # 0
              /\ \/ selOptions[selected].value = selWanted
                 \/ Trim(selOptions[selected].text) = selWanted
        /\ ~Selectable => rpos # "returned"
        /\ (rpos = "raised" /\ strace[Len(strace)].call = "evaluate"
               /\ FindByLabel(selOptions, selWanted) = 0) =>
              retError \in {OptionNotFound, Rejected("page.evaluate")}

\* The clear, pause, write and read of one iteration of smartFill, ending at j.
WroteThenRead(j) ==
    /\ j >= 4
    /\ \A k \in 1..3 : SameIteration(j - k, j) /\ strace[j - k].ok
    /\ <<strace[j - 3].call, strace[j - 2].call, strace[j - 1].call>>
          = <<"clear", "pause", "fill">>

\* Read j gave something else than the text.
Mismatch16(j) ==
    /\ strace[j].call = "inputValue" /\ strace[j].ok
    /\ strace[j].val # fillText

\* C16: smartFill returns only when the value read back after the write is
\* exactly the text; a read that differs fails its iteration; every iteration
\* clears and writes before it reads; and after maxRetries+1 iterations that
\* read something else smartFill raises the validation error.
C16_FillValidated ==
    sop = "fill" =>
        /\ rpos = "returned" =>
              /\ strace[Len(strace)].call = "inputValue"
              /\ strace[Len(strace)].ok
              /\ strace[Len(strace)].val = fillText
        /\ \A j \in 1..Len(strace) :
              /\ strace[j].call = "inputValue" => WroteThenRead(j)
              /\ Mismatch16(j) =>
                    IF j = Len(strace)
                    THEN rpos \in {"s_sleep", "f_write", "raised"}
                    ELSE /\ strace[j + 1].call = "clear"
                         /\ strace[j + 1].att = strace[j].att + 1
        /\ (rpos = "raised" /\ Mismatch16(Len(strace))) =>
              /\ \A a \in 0..rcfg.maxRetries :
                    \E i \in 1..Len(strace) : strace[i].phase = "op" /\ strace[i].att = a
              /\ retError = ValidationError(fillText, strace[Len(strace)].val)
        /\ (Len(strace) > 0 /\ Mismatch16(Len(strace))
               /\ strace[Len(strace)].att = rcfg.maxRetries) => rpos = "raised"

\* C16's case: smartFill raised the validation error after two iterations
\* that both read back something else than the text.
C16_Witness ==
    /\ sop = "fill" /\ rpos = "raised"
    /\ rcfg.maxRetries = 1
    /\ \A a \in 0..1 :
          \E j \in 1..Len(strace) : Mismatch16(j) /\ strace[j].att = a
    /\ retError = ValidationError(fillText, elValue)


\* C17: after any sequence of processResult, clearResults and report calls on
\* a TestResultHandler, getAllResults() is the sequence of the inputs of the
\* processResult calls made since the last clearResults, in call order, each
\* once: no report (generateSummary, getFailureAnalysis, getPerformanceSummary,
\* an export) has added, removed or reordered a stored result.
C17_ResultsSinceClear == GetAllResults = hSince

\* A result processed before a clearResults, one processed after it, and the
\* performance report, which sorts, made of what is stored.
C17_Witness ==
    /\ hCalls = 2
    /\ hSince = <<hIn>>
    /\ hReport.kind = "performance"
    /\ hReport.hasMetrics


\* The number of invocations of a listener in the last processResult call.
Invoked(event) == Cardinality({i \in DOMAIN hLog : hLog[i].event = event})

\* C18: a processResult call invokes the registered onTestComplete listener
\* exactly once, with the testCaseId of the result, and the registered
\* onTestFailure listener exactly once if the result is FAILED and never
\* otherwise, after onTestComplete and after the result was appended to the
\* result set; no listener is invoked for another result.
C18_ListenersInvoked ==
    hCalls > 0 =>
        /\ "onTestComplete" \in hOut.events => Invoked("onTestComplete") = 1
        /\ "onTestFailure" \in hOut.events =>
               Invoked("onTestFailure") = (IF hIn.status = "FAILED" THEN 1 ELSE 0)
        /\ \A i \in DOMAIN hLog :
               /\ hLog[i].event \in hOut.events
               /\ hLog[i].testId = hIn.testCaseId
               /\ hLog[i].seen # <<>>
               /\ hLog[i].seen[Len(hLog[i].seen)] = hIn
        /\ \A i, j \in DOMAIN hLog :
               hLog[i].event = "onTestFailure" /\ hLog[j].event = "onTestComplete" => j < i


\* The fields of a TestResult (types.ts, lines 89-101).
ResultFields ==
    {"testCaseId", "status", "duration", "stepResults", "error", "artifacts", "executedAt"}

\* C19: the value processResult returns has every field of its input
\* (testCaseId, status, duration, stepResults, error, artifacts, executedAt)
\* with the value it has in the input, and browserInfo as its only other new
\* field; the input object, which is the one stored, is as it was passed.
C19_ReturnsUnchangedCopy ==
    (hCalls > 0 /\ ~hOut.raised) =>
        /\ \A f \in ResultFields : hOut.value[f] = hIn[f]
        /\ \A f \in DOMAIN hIn : hOut.value[f] = hIn[f]
        /\ DOMAIN hOut.value = DOMAIN hIn \cup {"browserInfo"}
        /\ hResults # <<>> => hResults[Len(hResults)] = hIn


\* The listener was invoked for the test case, in the executeTest call.
Triggered(event, testId) ==
    \E i \in DOMAIN hLog : hLog[i].event = event /\ hLog[i].testId = testId

\* C20: in an executeTest call on an AutomationEngine, every registered
\* listener that applies is triggered: onTestStart(testId) before the first
\* step of the case runs, onTestComplete(testId, result) once the case has
\* finished and its result was processed, and onTestFailure(testId, error)
\* as well when the case failed.
C20_EveryListenerTriggered ==
    /\ (mode = "case" /\ callOutcome = "running" /\ Len(stepResults) > 0
            /\ "onTestStart" \in hEvents)
          => Triggered("onTestStart", tc.id)
    /\ (mode = "case" /\ hCalls = 1 /\ "onTestComplete" \in hEvents)
          => Triggered("onTestComplete", tcResult.testCaseId)
    /\ (mode = "case" /\ hCalls = 1 /\ "onTestFailure" \in hEvents
            /\ tcResult.status = "FAILED")
          => Triggered("onTestFailure", tcResult.testCaseId)

\* The number of results of rs with the status st.
WithStatus(rs, st) == Len(SelectSeq(rs, LAMBDA r : r.status = st))

\* C21: the summary generateSummary returns is a function of the result set
\* it worked on (the one given, else the accumulated one): passed, failed,
\* skipped and flaky are the numbers of its results with that status, total
\* is its length and their sum, duration is the sum of the durations (so two
\* calls on the same set give the same counts and duration); and the
\* accumulated set is what processResult made it.
C21_SummaryOfResults ==
    /\ GetAllResults = hSince
    /\ hReport.kind = "summary" =>
          LET rs == hReport.of
          IN  /\ hReport.passed = WithStatus(rs, "PASSED")
              /\ hReport.failed = WithStatus(rs, "FAILED")
              /\ hReport.skipped = WithStatus(rs, "SKIPPED")
              /\ hReport.flaky = WithStatus(rs, "FLAKY")
              /\ hReport.total = Len(rs)
              /\ hReport.total = hReport.passed + hReport.failed
                                    + hReport.skipped + hReport.flaky
              /\ hReport.duration = Sum([i \in DOMAIN rs |-> rs[i].duration])

\* A summary of two given results that are the same, while other results
\* are accumulated.
C21_Witness ==
    /\ hReport.kind = "summary"
    /\ Len(hReport.of) = 2
    /\ hReport.of[1] = hReport.of[2]
    /\ hReport.failed = 2
    /\ hReport.duration = 14
    /\ Len(hResults) = 2

\* The XML entity of a character, or the character.
XmlEntity(c) ==
    CASE c = "&"  -> <<"&", "a", "m", "p", ";">>
      [] c = "<"  -> <<"&", "l", "t", ";">>
      [] c = ">"  -> <<"&", "g", "t", ";">>
      [] c = "\"" -> <<"&", "q", "u", "o", "t", ";">>
      [] c = "'"  -> <<"&", "a", "p", "o", "s", ";">>
      [] OTHER    -> <<c>>

\* str with every special character replaced by its entity.
RECURSIVE WithEntities(_)
WithEntities(str) ==
    IF str = <<>> THEN <<>> ELSE XmlEntity(Head(str)) \o WithEntities(Tail(str))

\* C22: in the JUnit XML of exportToJunit, the name attribute of every
\* testcase is the testCaseId with every & < > " ' replaced by its entity,
\* and the failure message of every FAILED result is its error message with
\* every such character replaced by its entity.
C22_JunitEscaped ==
    fnName = "exportToJunit" =>
        \A i \in DOMAIN fnIn :
            LET case == fnOut.testcases[i]
            IN  /\ case.name = WithEntities(fnIn[i].testCaseId)
                /\ fnIn[i].status = "FAILED" =>
                      /\ case.child.kind = "failure"
                      /\ case.child.message = WithEntities(ErrorOr(fnIn[i], TestFailed))
                      /\ case.child.text = WithEntities(ErrorOr(fnIn[i], <<>>))

\* What a segment of a value is to become: a placeholder whose key is in the
\* data the string form of the value of the key, anything else itself.
Resolved(seg, data) ==
    IF seg.key /\ seg.chars \in DOMAIN data
    THEN StringOf(data[seg.chars])
    ELSE Written(seg)

RECURSIVE ResolvedAll(_, _)
ResolvedAll(segs, data) ==
    IF segs = <<>> THEN <<>>
    ELSE Resolved(Head(segs), data) \o ResolvedAll(Tail(segs), data)

\* C23: resolveValue never raises, and returns the value with every {{key}}
\* whose key is in the data replaced by the string form of the value of the
\* key, every {{key}} whose key is not in the data as it is, and everything
\* else as it is.
C23_ResolveValue ==
    fnName = "resolveValue" =>
        /\ ~fnOut.raised
        /\ fnOut.value = ResolvedAll(fnIn.segments, fnIn.data)

\* C24: the value a step passes to the driver is its expected resolved
\* against the testData of the test case overridden by the data of that step
\* (the value of the step wins), and the testData of the test case is never
\* modified: no override of a step reaches a later step.
C24_StepDataOverrides ==
    /\ dSi > 0 => dData = dTc.testData
    /\ \A i \in DOMAIN dLog :
          LET step == dTc.steps[dLog[i].step]
          IN  dLog[i].value = ResolveValue(step.expected, step.data @@ dTc.testData)

\* An override of k in the first step, and a second step without one, which
\* resolved k from the testData.
C24_Witness ==
    /\ Len(dLog) = 2
    /\ <<"k">> \in DOMAIN dTc.testData
    /\ <<"k">> \in DOMAIN dTc.steps[1].data
    /\ dTc.steps[2].data = <<>>
    /\ dLog[1].value = <<"s">>
    /\ dLog[2].value = <<"x">>

\* The actions performAction has a case for.
SupportedActions == ElementActions \cup PageActions \cup {"assert"}

\* The error performAction raises for each action that lacks its selector.
SelectorMessage ==
    [a \in ElementActions |-> "Element selector required for " \o a \o " action"]

\* C25: a step with an element-targeted action and no (or an empty) element,
\* and a step with an action outside the supported set, gets a FAILED
\* StepResult whose error names the action that lacks its selector, or the
\* unsupported action, and no driver interaction is invoked for it.
C25_RejectedWithoutDriver ==
    \A i \in DOMAIN stepResults :
        LET step == tc.steps[i]
            sr   == stepResults[i]
        IN  /\ (step.action \in ElementActions /\ ~step.element) =>
                  /\ sr.status = "FAILED"
                  /\ sr.error = SelectorMessage[step.action]
                  /\ interactions[i] = 0
            /\ step.action \notin SupportedActions =>
                  /\ sr.status = "FAILED"
                  /\ sr.error = "Unsupported action: " \o step.action
                  /\ interactions[i] = 0

\* A click step without element after a step that passed.
C25_Witness ==
    /\ mode = "case"
    /\ Len(stepResults) = 2
    /\ stepResults[1].status = "PASSED"
    /\ tc.steps[2].action = "click"
    /\ ~tc.steps[2].element
    /\ stepResults[2].error = "Element selector required for click action"
    /\ interactions[2] = 0

\* sub occurs in str.
Contains(str, sub) ==
    \E i \in 0..Len(str) :
        i + Len(sub) <= Len(str) /\ \A j \in 1..Len(sub) : str[i + j] = sub[j]

\* The step of the assert call passed; it failed, and its error and the
\* error of the case report this text and this actual value.
AssertPassed == fnOut.step.status = "PASSED" /\ fnOut.result.status = "PASSED"
AssertFailedWith(text, actual) ==
    /\ fnOut.step.status = "FAILED"
    /\ fnOut.result.status = "FAILED"
    /\ fnOut.step.error = fnOut.result.error
    /\ DOMAIN fnOut.step.error = {"text", "expected", "actual"}
    /\ fnOut.step.error.expected = text
    /\ fnOut.step.error.actual = actual

\* C26 as stated: an assert step without element whose resolved expected is
\* 'url:<s>' (or 'title:<s>') passes if the URL (the title) contains <s> and
\* fails otherwise, with the mismatch message as the error of the step and
\* of the case.
C26_PassesIffContains ==
    fnName = "assert" =>
        /\ fnIn.prefix = UrlPrefix =>
              IF Contains(fnIn.url, fnIn.needle) THEN AssertPassed
              ELSE AssertFailedWith(fnIn.needle, fnIn.url)
        /\ fnIn.prefix = TitlePrefix =>
              IF Contains(fnIn.title, fnIn.needle) THEN AssertPassed
              ELSE AssertFailedWith(fnIn.needle, fnIn.title)

\* C26, amended: the same for the URL, and for the title when the page gives
\* its title; when the read of the title is rejected the step fails with the
\* message of the rejection as the error of the step and of the case.
C26_PassesIffContainsRead ==
    fnName = "assert" =>
        /\ fnIn.prefix = UrlPrefix =>
              IF Contains(fnIn.url, fnIn.needle) THEN AssertPassed
              ELSE AssertFailedWith(fnIn.needle, fnIn.url)
        /\ (fnIn.prefix = TitlePrefix /\ fnIn.titleRead) =>
              IF Contains(fnIn.title, fnIn.needle) THEN AssertPassed
              ELSE AssertFailedWith(fnIn.needle, fnIn.title)
        /\ (fnIn.prefix = TitlePrefix /\ ~fnIn.titleRead) =>
              /\ fnOut.step.status = "FAILED"
              /\ fnOut.result.status = "FAILED"
              /\ fnOut.step.error = TitleRejected
              /\ fnOut.result.error = TitleRejected

\* A title assertion that failed on a title that holds the characters looked
\* for, in another order.
C26_Witness ==
    /\ fnName = "assert"
    /\ fnIn.prefix = TitlePrefix
    /\ fnIn.titleRead
    /\ fnIn.needle = <<"a", "b">>
    /\ fnIn.title = <<"b", "a">>
    /\ fnOut.step.status = "FAILED"
    /\ fnOut.reads = {"title"}

C28_TitleContainsVerified ==
    (fnName = "assert" /\ fnIn.prefix = TitleContainsPrefix
        /\ ~Contains(fnIn.title, fnIn.needle))
      => fnOut.step.status = "FAILED"

\* C29: in an executeTestSuite call with delayBetweenTests > 0, the delay is
\* performed after every attempted case that is followed by another attempted
\* case, whether that case passed, failed or raised: when the k-th case is
\* attempted, k - 1 delays of the configured length have been performed.
C29_DelayBetweenCases ==
    (mode = "suite" /\ opts.delayBetweenTests > 0) =>
        /\ Len(delays) >= Len(attempted) - 1
        /\ \A i \in DOMAIN delays : delays[i] = opts.delayBetweenTests

\* The category of an error message: that of the first text it holds, in the
\* order timeout, element not found, navigation, network; Other if none.
Category(errorText) ==
    CASE Contains(errorText, TimeoutText) -> "Timeout"
      [] ~Contains(errorText, TimeoutText) /\ Contains(errorText, ElementNotFoundText)
            -> "Element Not Found"
      [] ~Contains(errorText, TimeoutText) /\ ~Contains(errorText, ElementNotFoundText)
            /\ Contains(errorText, NavigationText) -> "Navigation Error"
      [] ~Contains(errorText, TimeoutText) /\ ~Contains(errorText, ElementNotFoundText)
            /\ ~Contains(errorText, NavigationText) /\ Contains(errorText, NetworkText)
            -> "Network Error"
      [] OTHER -> "Other"

\* The FAILED results of rs that have an error of this category.
FailedIn(rs, category) ==
    {i \in DOMAIN rs : /\ rs[i].status = "FAILED"
                       /\ "error" \in DOMAIN rs[i]
                       /\ rs[i].error # <<>>
                       /\ Category(rs[i].error) = category}

\* C30: getFailureAnalysis(results) returns hasFailures = false exactly when
\* no result is FAILED; otherwise totalFailures is the number of FAILED
\* results, every category is listed once with the number of FAILED results
\* with an error that fall into it (a category with none is not listed), and
\* the categories are listed in non-increasing order of count.
C30_FailureAnalysis ==
    fnName = "getFailureAnalysis" =>
        LET failed == {i \in DOMAIN fnIn : fnIn[i].status = "FAILED"}
        IN  /\ fnOut.hasFailures <=> failed # {}
            /\ fnOut.hasFailures =>
                  LET patterns == fnOut.errorPatterns
                  IN  /\ fnOut.totalFailures = Cardinality(failed)
                      /\ \A i \in DOMAIN patterns :
                            /\ patterns[i].count = Cardinality(FailedIn(fnIn, patterns[i].error))
                            /\ patterns[i].count > 0
                      /\ \A i, j \in DOMAIN patterns :
                            /\ i < j => patterns[i].count >= patterns[j].count
                            /\ i # j => patterns[i].error # patterns[j].error
                      /\ \A i \in failed :
                            ("error" \in DOMAIN fnIn[i] /\ fnIn[i].error # <<>>) =>
                               \E k \in DOMAIN patterns :
                                  patterns[k].error = Category(fnIn[i].error)

\* Three FAILED results: one of a category first, then two of another, whose
\* message holds the texts of two categories; the category of the two is
\* listed first.
C30_Witness ==
    /\ fnName = "getFailureAnalysis"
    /\ fnIn = <<[status |-> "FAILED", error |-> NetworkText],
                [status |-> "FAILED", error |-> NetworkText \o <<" ">> \o TimeoutText],
                [status |-> "FAILED", error |-> TimeoutText]>>
    /\ fnOut.hasFailures
    /\ fnOut.totalFailures = 3
    /\ fnOut.errorPatterns =
          <<[error |-> "Timeout", count |-> 2], [error |-> "Network Error", count |-> 1]>>

Excluded(url, patterns) ==
    \E i \in DOMAIN patterns : Contains(url, patterns[i])

\* C32: a crawl loads no URL twice, none at a depth greater than maxDepth and
\* none that matches an exclude pattern, follows only links whose hostname is
\* that of the start URL, and reports as totalPagesFound the number of pages
\* of its result.
C32_CrawlLimits ==
    fnName = "crawl" =>
        /\ \A i, j \in DOMAIN fnOut.loads :
              i # j => fnOut.loads[i].url # fnOut.loads[j].url
        /\ \A i \in DOMAIN fnOut.loads :
              /\ fnOut.loads[i].depth <= fnIn.maxDepth
              /\ ~Excluded(fnOut.loads[i].url, fnIn.patterns)
        /\ \A i \in DOMAIN fnOut.followed :
              /\ fnOut.followed[i] # InvalidUrl
              /\ fnOut.followed[i][1] = fnIn.url[1]
        /\ fnOut.outcome = "returned" => fnOut.totalPagesFound = Len(fnOut.pages)

\* A crawl of two pages that link to each other: each is loaded once, the
\* link back to the start is followed and loads nothing.
C32_Witness ==
    /\ fnName = "crawl"
    /\ fnIn.patterns = <<AdminPattern>>
    /\ fnIn.maxDepth = 2
    /\ fnIn.site[StartUrl] = <<UrlA>>
    /\ fnIn.site[UrlA] = <<StartUrl>>
    /\ fnOut.outcome = "returned"
    /\ fnOut.totalPagesFound = 2
    /\ fnOut.pages = <<StartUrl, UrlA>>
    /\ fnOut.followed = <<UrlA, StartUrl>>
    /\ Len(fnOut.loads) = 2

\* The pages of the crawled site that are not excluded, are of the start
\* URL's host and are reached from the start URL through at most k links of
\* such pages.
RECURSIVE Within(_)
Within(k) ==
    LET allowed == {p \in DOMAIN fnIn.site :
                       p[1] = fnIn.url[1] /\ ~Excluded(p, fnIn.patterns)}
    IN  IF k = 0 THEN {fnIn.url} \cap allowed
        ELSE Within(k - 1) \cup
             {p \in allowed :
                 \E q \in Within(k - 1) : \E i \in DOMAIN fnIn.site[q] : fnIn.site[q][i] = p}

\* C38: when no page load fails, the crawl discovers every page that is not
\* excluded, is of the start URL's host and is reachable from the start URL
\* through at most maxDepth links, whatever the order of the links.
C38_DiscoversReachable ==
    (fnName = "crawlHost" /\ fnOut.outcome = "returned" /\ fnOut.errors = <<>>) =>
        \A p \in Within(fnIn.maxDepth) : \E i \in DOMAIN fnOut.pages : fnOut.pages[i] = p

\* C35: after a sequence of initialize() and cleanup() calls that ends with a
\* cleanup() in which no close operation raised, no browser this executor
\* launched is open, also when initialize() was called twice with no
\* cleanup() in between.
C35_NoBrowserLeftOpen ==
    (lpc = "idle" /\ lastCall = "cleanup" /\ ~closeRaised) =>
        \A s \in 1..nLaunch : ~IsOpen("browser", s)

\* C34: with cleanup() called while executeTestCase is running, the call
\* does not raise and its stepResults are those of the first declared steps;
\* a step started once this.page is null gets a FAILED StepResult with the
\* error 'Page not available' and no driver interaction, no step is started
\* after it, and the end of a call that finds this.page null captures nothing
\* and returns the TestResult.
C34_CleanupDuringCase ==
    [][ /\ callOutcome = "running" => callOutcome' \in {"running", "returned"}
        /\ (mode' = "case" /\ callOutcome' # "raised") =>
              /\ Len(stepResults') <= Len(tc'.steps)
              /\ \A i \in DOMAIN stepResults' : stepResults'[i].step = tc'.steps[i].step
        /\ (rpc = "step" /\ page = Null /\ stepResults' # stepResults) =>
              /\ stepResults' = Append(stepResults, stepResults'[Len(stepResults')])
              /\ stepResults'[Len(stepResults')].status = "FAILED"
              /\ stepResults'[Len(stepResults')].error = "Page not available"
              /\ interactions'[Len(interactions')] = 0
              /\ rpc' = "finish"
        /\ (rpc = "finish" /\ page = Null /\ rpc' # rpc) =>
              /\ ~captured'
              /\ artifacts' = {}
              /\ callOutcome' = "returned"
              /\ tcResult'.stepResults = stepResults
      ]_<<mode, rpc, callOutcome, stepResults>>

\* A call of two steps has returned: the first step passed, cleanup()
\* released the page, and the second step failed with 'Page not available'.
C34_Witness ==
    /\ mode = "case"
    /\ callOutcome = "returned"
    /\ page = Null
    /\ atStart[1] # Null
    /\ Len(tc.steps) = 2
    /\ Len(stepResults) = 2
    /\ stepResults[1].status = "PASSED"
    /\ interactions[1] = 1
    /\ stepResults[2].error = "Page not available"
    /\ interactions[2] = 0
    /\ tcResult.status = "FAILED"
    /\ ~captured

\* C33: the driver calls of two executeTestCase calls on one executor are not
\* interleaved: between two driver calls of one test case there is none of
\* another, also when a call is made while another is running.
C33_NotInterleaved ==
    \A i, j, k \in DOMAIN xLog :
        (i < j /\ j < k /\ xLog[i].call = xLog[k].call) => xLog[j].call = xLog[i].call

\* The onTestComplete invocations among the listener invocations.
Completions == SelectSeq(hLog, LAMBDA inv : inv.event = "onTestComplete")

\* C36: after an executeTest or executeTestSuite call of the engine, the
\* engine's result set holds one entry per TestResult the call returned to
\* its caller, and the onTestComplete listener was invoked once per returned
\* result.
C36_OneEntryPerReturned ==
    /\ (mode = "case" /\ hCalls = 1) =>
          LET returned == IF hOut.raised THEN 0 ELSE 1
          IN  /\ Len(hResults) = returned
              /\ "onTestComplete" \in hEvents => Len(Completions) = returned
    /\ (mode = "suite" /\ eOut.ended) =>
          LET returned == IF eOut.raised THEN 0 ELSE Len(eOut.value)
          IN  /\ Len(hResults) = returned
              /\ "onTestComplete" \in hEvents => Len(Completions) = returned

\* C37: with listeners that may throw, the engine's executeTestSuite records
\* the result of every executed case in the engine's result set and returns
\* the list of results.
C37_ThrowLosesNothing ==
    (mode = "suite" /\ eOut.ended) =>
        /\ ~eOut.raised
        /\ eOut.value = results
        /\ Len(hResults) = Len(results)
        /\ \A i \in DOMAIN results : hResults[i].testCaseId = results[i].testCaseId

\* The waitFor calls and the setTimeout delays of a waitForElement call.
WaitForCalls == SelectSeq(fnOut.calls, LAMBDA c : c.call = "waitFor")
SleepCalls == SelectSeq(fnOut.calls, LAMBDA c : c.call = "setTimeout")

\* C39: waitForElement waits for 'visible' when waitForVisible is set and for
\* 'attached' otherwise, with options.timeout when the caller gave one and the
\* configured default otherwise; an element that never reaches the state is
\* waited for maxRetries+1 times, each time with that timeout and with the
\* backoff delays in between, before the failure is raised; a wait that
\* succeeds is the last one.
C39_WaitForElement ==
    fnName = "waitForElement" =>
        LET config == ConfigOf(fnIn.config)
            cfg == config.retryConfig
            visible == "waitForVisible" \in DOMAIN fnIn.options /\ fnIn.options["waitForVisible"]
            timeout == IF "timeout" \in DOMAIN fnIn.options
                       THEN fnIn.options["timeout"] ELSE config.defaultWaitTimeout
        IN  /\ \A i \in 1..Len(WaitForCalls) :
                   /\ WaitForCalls[i].state = (IF visible THEN "visible" ELSE "attached")
                   /\ WaitForCalls[i].ms = timeout
            /\ fnIn.reachedAt = 0 =>
                   /\ fnOut.outcome = "raised"
                   /\ Len(WaitForCalls) = cfg.maxRetries + 1
                   /\ Len(SleepCalls) = cfg.maxRetries
                   /\ \A i \in 1..Len(SleepCalls) :
                          /\ SleepCalls[i].ms = BackoffDelay(cfg, i - 1)
                          /\ fnOut.calls[2 * i] = SleepCalls[i]
            /\ fnOut.outcome = "returned" =>
                   /\ Len(WaitForCalls) = fnIn.reachedAt
                   /\ fnOut.calls[Len(fnOut.calls)].call = "waitFor"

====
